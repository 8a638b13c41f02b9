-------------------------- MODULE ProtectionProofs --------------------------
(***************************************************************************)
(* Proofs about Protection, Challenge and Detectors, for any number of     *)
(* keys, tokens, overlapping requests and attempts, any escalation, any    *)
(* limits, windows and thresholds, and any capacity of the tables.         *)
(*                                                                         *)
(* Of the pipeline: a ban is earned by the offences it takes, falls on     *)
(* whoever has committed them and is kept while it is in force; trust is   *)
(* earned; and the trust cache evicts what its capacity demands.           *)
(*                                                                         *)
(* Of the challenge manager: a token counts once unless a provider took    *)
(* too long over it; attempts stay within their limits; a counter errs     *)
(* only towards leniency, and only when calls raced; and the threshold     *)
(* bans.                                                                   *)
(*                                                                         *)
(* Of the detectors: the sentinel flags the tail of the scores it has      *)
(* seen; a session is reshuffled in time only by a crowd of others; the    *)
(* sketches forget nothing; marks of probing follow what was done; and the *)
(* rate of a client is measured against its peers.                         *)
(***************************************************************************)
EXTENDS Challenge, Protection, Detectors, Sums, SequenceTheorems, FiniteSetTheorems, TLAPS

BanEntries == [level : 1..Top, expires : Nat \union {Forever}]

BanTypes ==
  /\ clock \in Nat
  /\ bans \in [Keys -> BanEntries \union {None}]
  /\ violations \in [Keys -> Seq(Nat)]

\* A ban's end is no further off than its level's duration: what makes a
\* ban of a higher level, imposed now, end no sooner.
EndIsInReach(k) ==
  \/ Escalation[bans[k].level] = 0
  \/ bans[k].expires # Forever /\ bans[k].expires <= clock + Escalation[bans[k].level]

BansEndInReach == \A k \in Keys : bans[k] # None => EndIsInReach(k)

BanInv == BanTypes /\ BansEndInReach

\* What BanIsKept says of a ban that nobody cleared.
StillBanned(k) ==
  /\ bans'[k] # None
  /\ bans'[k].level >= bans[k].level
  /\ NoSooner(bans'[k].expires, bans[k].expires)

TrustTypes ==
  /\ DOMAIN states = Keys
  /\ streak \in [Keys -> 0..(SuccessThreshold - 1)]
  /\ clean \in [Keys -> 0..SuccessThreshold]
  /\ task \in [Requests ->
                [key : Keys, at : {"rule", "application"}] \union {None}]

\* A streak never counts more than the history does.
StreaksAreClean == \A k \in Keys : streak[k] <= clean[k]

\* A cached "trusted", be it stale or not, belongs to a key that earned it.
VerdictsAreEarned ==
  \A k \in Keys :
    states[k] # None /\ states[k].level = "trusted" => clean[k] = SuccessThreshold

TrustInv == TrustTypes /\ StreaksAreClean /\ VerdictsAreEarned

KeptOrCleared(k) == InForce(k) => StillBanned(k) \/ k \in pardoned'

-----------------------------------------------------------------------------
(* Lists of times, the latest last *)

\* The i-th time of s, counted from the latest.
FromEnd(s, i) == s[Len(s) + 1 - i]

InOrder(s) == \A i, j \in 1..Len(s) : i <= j => FromEnd(s, j) <= FromEnd(s, i)

\* w is what is left of s when its first entries are dropped.
EndOf(w, s) ==
  /\ w \in Seq(Nat)
  /\ Len(w) <= Len(s)
  /\ \A i \in 1..Len(w) : FromEnd(w, i) = FromEnd(s, i)

LEMMA TimesAreNumbers ==
  ASSUME NEW s \in Seq(Nat)
  PROVE  /\ Len(s) \in Nat /\ DOMAIN s = 1..Len(s)
         /\ \A i \in 1..Len(s) : s[i] \in Nat /\ FromEnd(s, i) \in Nat
<1>1. Len(s) \in Nat /\ DOMAIN s = 1..Len(s) /\ \A i \in 1..Len(s) : s[i] \in Nat
  BY LenProperties, ElementOfSeq
<1>2. \A i \in 1..Len(s) : Len(s) + 1 - i \in 1..Len(s)
  BY <1>1
<1>3. QED
  BY <1>1, <1>2 DEF FromEnd

LEMMA SegmentSize ==
  ASSUME NEW n \in Nat
  PROVE  IsFiniteSet(1..n) /\ Cardinality(1..n) = n
<1>1. 1 \in Int /\ n \in Int
  OBVIOUS
<1>2. /\ IsFiniteSet(1..n)
      /\ Cardinality(1..n) = IF 1 > n THEN 0 ELSE n - 1 + 1
  BY <1>1, FS_Interval
<1>3. QED
  BY <1>2

LEMMA Mirrored ==
  ASSUME NEW n \in Nat, NEW i \in 1..n, NEW j \in 1..i
  PROVE  /\ j \in 1..n /\ n + 1 - i \in 1..n /\ n + 1 - j \in 1..n
         /\ n + 1 - i <= n + 1 - j
         /\ n + 1 - (n + 1 - i) = i /\ n + 1 - (n + 1 - j) = j
OBVIOUS

(***************************************************************************)
(* A set of numbers that has, with any number, all the positive ones below *)
(* it is the interval from 1 to its size.                                  *)
(***************************************************************************)
LEMMA DownwardClosed ==
  ASSUME NEW n \in Nat, NEW D \in SUBSET (1..n),
         \A i \in D : \A j \in 1..i : j \in D
  PROVE  Cardinality(D) \in 0..n /\ D = 1..Cardinality(D)
<1> DEFINE Gaps == {m \in Nat : m + 1 \notin D}
<1>1. n \in Gaps
  OBVIOUS
<1>2. PICK m \in Gaps : \A g \in Gaps : ~(<<g, m>> \in OpToRel(<, Nat))
  <2>1. Gaps \subseteq Nat /\ Gaps # {}
    BY <1>1
  <2>2. QED
    BY <2>1, NatLessThanWellFounded, WFMin
<1>3. \A g \in Gaps : m <= g
  <2> SUFFICES ASSUME NEW g \in Gaps, g < m PROVE FALSE
    OBVIOUS
  <2>1. <<g, m>> \in OpToRel(<, Nat)
    BY DEF OpToRel
  <2>2. QED
    BY <1>2, <2>1
<1>4. m \in 0..n
  BY <1>1, <1>3
<1>5. ASSUME NEW j \in 1..m PROVE j \in D
  <2>1. j - 1 \in Nat /\ j - 1 < m
    BY <1>4
  <2>2. j - 1 \notin Gaps
    BY <1>3, <1>4, <2>1
  <2>3. QED
    BY <2>1, <2>2
<1>6. ASSUME NEW j \in D PROVE j \in 1..m
  <2> SUFFICES ASSUME j > m PROVE FALSE
    BY <1>4
  <2>1. m + 1 \in 1..j
    BY <1>4
  <2>2. QED
    BY <1>2, <2>1
<1>7. D = 1..m
  BY <1>5, <1>6
<1>8. Cardinality(1..m) = m
  BY <1>4, FS_Interval
<1>9. QED
  BY <1>4, <1>7, <1>8

LEMMA DroppingTheFirst ==
  ASSUME NEW s \in Seq(Nat), NEW m \in 0..Len(s)
  PROVE  /\ EndOf(SubSeq(s, m + 1, Len(s)), s)
         /\ Len(SubSeq(s, m + 1, Len(s))) = Len(s) - m
<1> DEFINE w == SubSeq(s, m + 1, Len(s))
<1>1. Len(s) \in Nat /\ \A i \in 1..Len(s) : s[i] \in Nat
  BY TimesAreNumbers
<1>2. /\ w \in Seq(Nat)
      /\ Len(w) = IF m + 1 <= Len(s) THEN Len(s) - (m + 1) + 1 ELSE 0
      /\ \A i \in 1..(Len(s) - (m + 1) + 1) : w[i] = s[(m + 1) + i - 1]
  <2>1. m + 1 \in Int /\ Len(s) \in Int /\ \A i \in (m + 1)..Len(s) : s[i] \in Nat
    BY <1>1
  <2>2. QED
    BY <2>1, SubSeqProperties
<1> HIDE DEF w
<1>3. Len(w) = Len(s) - m
  BY <1>1, <1>2
<1>4. ASSUME NEW i \in 1..Len(w)
      PROVE  FromEnd(w, i) = FromEnd(s, i)
  <2>1. Len(w) + 1 - i \in 1..(Len(s) - (m + 1) + 1)
    BY <1>1, <1>3
  <2>2. w[Len(w) + 1 - i] = s[(m + 1) + (Len(w) + 1 - i) - 1]
    BY <1>2, <2>1
  <2>3. (m + 1) + (Len(w) + 1 - i) - 1 = Len(s) + 1 - i
    BY <1>1, <1>3
  <2>4. QED
    BY <2>2, <2>3 DEF FromEnd
<1>5. EndOf(w, s)
  BY <1>1, <1>2, <1>3, <1>4 DEF EndOf
<1>6. QED
  BY <1>3, <1>5 DEF w

(***************************************************************************)
(* What Within leaves of a list in order are the times in the window.      *)
(***************************************************************************)
LEMMA WithinIsTheWindow ==
  ASSUME NEW s \in Seq(Nat), InOrder(s), NEW window \in Nat, NEW t \in Nat
  PROVE  /\ EndOf(Within(s, window, t), s)
         /\ \A i \in 1..Len(s) :
              i <= Len(Within(s, window, t)) <=> t - FromEnd(s, i) < window
<1> DEFINE Old == {i \in DOMAIN s : t - s[i] >= window}
           w == Within(s, window, t)
<1>1. /\ Len(s) \in Nat /\ DOMAIN s = 1..Len(s)
      /\ \A i \in 1..Len(s) : s[i] \in Nat /\ FromEnd(s, i) \in Nat
  BY TimesAreNumbers
<1> HIDE DEF w
<1>2. ASSUME NEW i \in Old, NEW j \in 1..i
      PROVE  j \in Old
  <2>1. i \in 1..Len(s) /\ t - s[i] >= window
    BY <1>1
  <2>2. /\ j \in 1..Len(s) /\ Len(s) + 1 - i \in 1..Len(s) /\ Len(s) + 1 - j \in 1..Len(s)
        /\ Len(s) + 1 - i <= Len(s) + 1 - j
        /\ Len(s) + 1 - (Len(s) + 1 - i) = i /\ Len(s) + 1 - (Len(s) + 1 - j) = j
    <3> HIDE DEF Old
    <3>1. QED
      BY <1>1, <2>1, Mirrored
  <2>3. s[j] <= s[i]
    BY <2>2 DEF InOrder, FromEnd
  <2>4. t - s[j] >= window
    <3>1. s[i] \in Nat /\ s[j] \in Nat
      BY <1>1, <2>1, <2>2
    <3>2. QED
      BY ONLY <2>1, <2>3, <3>1, t \in Nat, window \in Nat
  <2>5. QED
    BY <1>1, <2>2, <2>4
<1>3. Cardinality(Old) \in 0..Len(s) /\ Old = 1..Cardinality(Old)
  <2>1. Old \in SUBSET (1..Len(s))
    BY <1>1
  <2>2. QED
    BY <1>1, <1>2, <2>1, DownwardClosed
<1> DEFINE m == Cardinality(Old)
<1>4. EndOf(w, s) /\ Len(w) = Len(s) - m
  <2>1. w = SubSeq(s, m + 1, Len(s))
    BY DEF Within, w
  <2> HIDE DEF m, Old
  <2>2. QED
    BY <1>3, <2>1, DroppingTheFirst DEF m
<1>5. ASSUME NEW i \in 1..Len(s)
      PROVE  i <= Len(w) <=> t - FromEnd(s, i) < window
  <2>1. Len(s) + 1 - i \in 1..Len(s)
    BY <1>1
  <2>2. Len(s) + 1 - i \in Old <=> ~(t - FromEnd(s, i) < window)
    BY <1>1, <2>1 DEF FromEnd
  <2>3. Len(s) + 1 - i \in Old <=> Len(s) + 1 - i <= m
    <3> HIDE DEF Old
    <3>1. QED
      BY <1>1, <1>3, <2>1
  <2>4. /\ Len(s) \in Nat /\ i \in 1..Len(s) /\ m \in 0..Len(s)
        /\ Len(w) = Len(s) - m
    BY <1>1, <1>3, <1>4
  <2> HIDE DEF Old, m
  <2>5. i <= Len(w) <=> ~(Len(s) + 1 - i <= m)
    BY ONLY <2>4
  <2>6. QED
    BY <2>2, <2>3, <2>5
<1>6. QED
  BY <1>4, <1>5 DEF w

(***************************************************************************)
(* Cutting a list to its newest n keeps those.                             *)
(***************************************************************************)
LEMMA NewestIsTheEnd ==
  ASSUME NEW s \in Seq(Nat), NEW n \in Nat
  PROVE  /\ EndOf(Newest(s, n), s)
         /\ Len(Newest(s, n)) = IF Len(s) > n THEN n ELSE Len(s)
<1> DEFINE m == IF Len(s) > n THEN Len(s) - n ELSE 0
<1>1. Len(s) \in Nat
  BY TimesAreNumbers
<1>2. m \in 0..Len(s) /\ 1 + m = m + 1
  BY <1>1
<1>3. Newest(s, n) = SubSeq(s, m + 1, Len(s))
  BY <1>2 DEF Newest
<1> HIDE DEF m
<1>4. EndOf(Newest(s, n), s) /\ Len(Newest(s, n)) = Len(s) - m
  BY <1>2, <1>3, DroppingTheFirst
<1>5. QED
  BY <1>1, <1>4 DEF m

LEMMA AppendingIsLatest ==
  ASSUME NEW s \in Seq(Nat), NEW t \in Nat
  PROVE  /\ Append(s, t) \in Seq(Nat)
         /\ Len(Append(s, t)) = Len(s) + 1
         /\ FromEnd(Append(s, t), 1) = t
         /\ \A i \in 1..Len(s) : FromEnd(Append(s, t), i + 1) = FromEnd(s, i)
<1>1. Len(s) \in Nat
  BY TimesAreNumbers
<1>2. /\ Append(s, t) \in Seq(Nat)
      /\ Len(Append(s, t)) = Len(s) + 1
      /\ \A i \in 1..Len(s) : Append(s, t)[i] = s[i]
      /\ Append(s, t)[Len(s) + 1] = t
  BY AppendProperties
<1>3. FromEnd(Append(s, t), 1) = t
  BY <1>1, <1>2 DEF FromEnd
<1>4. ASSUME NEW i \in 1..Len(s)
      PROVE  FromEnd(Append(s, t), i + 1) = FromEnd(s, i)
  <2>1. /\ Len(s) + 1 - i \in 1..Len(s)
        /\ (Len(s) + 1) + 1 - (i + 1) = Len(s) + 1 - i
    BY <1>1
  <2>2. QED
    BY <1>2, <2>1 DEF FromEnd
<1>5. QED
  BY <1>2, <1>3, <1>4

(***************************************************************************)
(* Forgetting what is too old leaves a list of times in any case.          *)
(***************************************************************************)
LEMMA WithinIsSeq ==
  ASSUME NEW s \in Seq(Nat), NEW w \in Nat, NEW t \in Nat
  PROVE  Within(s, w, t) \in Seq(Nat)
<1> DEFINE Old == {i \in DOMAIN s : t - s[i] >= w}
           m == Cardinality(Old)
<1>1. Len(s) \in Nat /\ DOMAIN s = 1..Len(s)
  BY TimesAreNumbers
<1>2. IsFiniteSet(1..Len(s)) /\ Cardinality(1..Len(s)) = Len(s)
  BY <1>1, SegmentSize
<1>3. Old \in SUBSET (1..Len(s))
  BY <1>1
<1>4. m \in 0..Len(s)
  <2>1. Cardinality(Old) \in Nat /\ Cardinality(Old) <= Cardinality(1..Len(s))
    <3> HIDE DEF Old
    <3>1. QED
      BY <1>2, <1>3, FS_Subset, FS_CardinalityType
  <2>2. QED
    BY <1>1, <1>2, <2>1
<1>5. Within(s, w, t) = SubSeq(s, m + 1, Len(s))
  BY DEF Within
<1> HIDE DEF m
<1>6. QED
  BY <1>4, <1>5, DroppingTheFirst DEF EndOf

-----------------------------------------------------------------------------
(* Bans *)

(***************************************************************************)
(* A count that reaches the threshold has one of the levels of escalation. *)
(***************************************************************************)
LEMMA LevelInRange ==
  ASSUME NEW howMany \in Nat, howMany >= Threshold
  PROVE  Level(howMany) \in 1..Top
BY EscalationAssumption, BanAssumption DEF Level, AtMost

(***************************************************************************)
(* Recording a violation keeps every ban, up to a longer one.              *)
(***************************************************************************)
LEMMA RecordKeepsBans ==
  ASSUME BanInv, NEW k \in Keys, RecordViolation(k), clock' = clock
  PROVE  BanInv' /\ \A j \in Keys : InForce(j) => StillBanned(j)
<1> DEFINE listed == Newest(Append(Recent(k), clock), MaxViolations)
           howMany == Len(listed)
           new == [level |-> Level(howMany), expires |-> Deadline(Escalation[Level(howMany)])]
<1>1. Recent(k) \in Seq(Nat)
  BY WithinIsSeq, BanAssumption DEF BanInv, BanTypes, Recent
<1>2. listed \in Seq(Nat)
  <2>1. Append(Recent(k), clock) \in Seq(Nat)
    BY <1>1 DEF BanInv, BanTypes
  <2>2. QED
    BY <2>1, NewestIsTheEnd, BanAssumption DEF EndOf
<1>3. howMany \in Nat
  BY <1>2, LenProperties
<1>4. violations' = [violations EXCEPT ![k] = listed]
  BY DEF RecordViolation
<1>5. \/ bans' = bans
      \/ /\ Escalates(k, howMany)
         /\ bans' = [bans EXCEPT ![k] = new]
  BY DEF RecordViolation
<1> HIDE DEF listed
<1>6. violations' \in [Keys -> Seq(Nat)]
  BY <1>2, <1>4 DEF BanInv, BanTypes
<1>7. CASE bans' = bans
  <2>1. BanInv'
    BY <1>6, <1>7 DEF BanInv, BanTypes, BansEndInReach, EndIsInReach
  <2>2. ASSUME NEW j \in Keys, InForce(j)
        PROVE  StillBanned(j)
    <3>1. bans[j] # None /\ bans[j].level \in Int
          /\ bans[j].expires \in Nat \union {Forever}
      BY <2>2 DEF InForce, BanInv, BanTypes, BanEntries
    <3>2. QED
      BY <1>7, <3>1 DEF StillBanned, NoSooner
  <2>3. QED
    BY <2>1, <2>2
<1>8. CASE Escalates(k, howMany) /\ bans' = [bans EXCEPT ![k] = new]
  <2>1. Level(howMany) \in 1..Top
    BY <1>3, <1>8, LevelInRange DEF Escalates
  <2>2. Escalation[Level(howMany)] \in Nat
    BY <2>1, EscalationAssumption
  <2>3. new \in BanEntries /\ new # None
    BY <2>1, <2>2, BanAssumption DEF BanEntries, Deadline, BanInv, BanTypes
  <2>4. bans'[k] = new /\ \A j \in Keys \ {k} : bans'[j] = bans[j]
    BY <1>8 DEF BanInv, BanTypes
  <2>5. BanTypes'
    BY <1>6, <1>8, <2>3 DEF BanInv, BanTypes
  <2>6. BansEndInReach'
    <3>1. EndIsInReach(k)'
      BY <2>2, <2>4, BanAssumption DEF EndIsInReach, Deadline, BanInv, BanTypes
    <3>2. \A j \in Keys \ {k} : bans'[j] # None => EndIsInReach(j)'
      BY <2>4 DEF EndIsInReach, BanInv, BansEndInReach
    <3>3. QED
      BY <3>1, <3>2 DEF BansEndInReach
  <2>7. ASSUME NEW j \in Keys, InForce(j)
        PROVE  StillBanned(j)
    <3>1. /\ bans[j] # None /\ bans[j].level \in 1..Top
          /\ bans[j].expires \in Nat \union {Forever}
      BY <2>7 DEF InForce, BanInv, BanTypes, BanEntries
    <3>2. CASE j # k
      BY <2>4, <3>1, <3>2 DEF StillBanned, NoSooner
    <3>3. CASE j = k
      <4>1. Level(howMany) > bans[k].level
        BY <1>8, <3>1, <3>3 DEF Escalates
      <4>2. \/ Escalation[Level(howMany)] = 0
            \/ /\ Escalation[bans[k].level] # 0
               /\ Escalation[bans[k].level] <= Escalation[Level(howMany)]
        BY <2>1, <3>1, <3>3, <4>1, EscalationAssumption
      <4>3. EndIsInReach(k)
        BY <3>1, <3>3 DEF BanInv, BansEndInReach
      <4>4. Escalation[bans[k].level] \in Nat
        BY <3>1, <3>3, EscalationAssumption
      <4>5. NoSooner(new.expires, bans[k].expires)
        BY <2>2, <3>1, <3>3, <4>2, <4>3, <4>4, BanAssumption
           DEF NoSooner, EndIsInReach, Deadline, BanInv, BanTypes
      <4>6. QED
        BY <2>1, <2>3, <2>4, <3>1, <3>3, <4>1, <4>5 DEF StillBanned
    <3>4. QED
      BY <3>2, <3>3
  <2>8. QED
    BY <2>5, <2>6, <2>7 DEF BanInv
<1>9. QED
  BY <1>5, <1>7, <1>8

(***************************************************************************)
(* Tidying up takes only what is over.                                     *)
(***************************************************************************)
LEMMA TidyingKeepsBans ==
  ASSUME BanInv, clock' = clock,
         \A j \in Keys : bans'[j] \in {bans[j], KeptBan(j)},
         \A j \in Keys : violations'[j] \in {violations[j], KeptHistory(j)},
         DOMAIN bans' = Keys, bans' = [j \in Keys |-> bans'[j]],
         DOMAIN violations' = Keys, violations' = [j \in Keys |-> violations'[j]]
  PROVE  BanInv' /\ \A j \in Keys : InForce(j) => StillBanned(j)
<1>1. ASSUME NEW j \in Keys
      PROVE  /\ bans'[j] \in {bans[j], None}
             /\ InForce(j) => bans'[j] = bans[j]
             /\ violations'[j] \in Seq(Nat)
  <2>1. KeptHistory(j) \in Seq(Nat)
    BY WithinIsSeq, BanAssumption DEF BanInv, BanTypes, KeptHistory, Recent
  <2>2. QED
    BY <2>1 DEF KeptBan, BanInv, BanTypes
<1>2. BanTypes'
  BY <1>1 DEF BanInv, BanTypes
<1>3. BansEndInReach'
  BY <1>1 DEF BanInv, BansEndInReach, EndIsInReach
<1>4. ASSUME NEW j \in Keys, InForce(j)
      PROVE  StillBanned(j)
  <2>1. /\ bans[j] # None /\ bans[j].level \in Int
        /\ bans[j].expires \in Nat \union {Forever}
    BY <1>4 DEF InForce, BanInv, BanTypes, BanEntries
  <2>2. QED
    BY <1>1, <1>4, <2>1 DEF StillBanned, NoSooner
<1>5. QED
  BY <1>2, <1>3, <1>4 DEF BanInv

(***************************************************************************)
(* What leaves bans and violations alone keeps every ban while the clock   *)
(* does not run backwards.                                                 *)
(***************************************************************************)
LEMMA UnchangedBansAreKept ==
  ASSUME BanInv, clock' \in Nat, clock <= clock', UNCHANGED <<bans, violations>>
  PROVE  BanInv' /\ \A k \in Keys : KeptOrCleared(k)
<1>1. ASSUME NEW k \in Keys, bans[k] # None
      PROVE  /\ bans[k].level \in 1..Top
             /\ bans[k].expires \in Nat \union {Forever}
  BY <1>1 DEF BanInv, BanTypes, BanEntries
<1>2. ASSUME NEW k \in Keys, bans[k] # None
      PROVE  EndIsInReach(k)'
  <2>1. EndIsInReach(k)
    BY <1>2 DEF BanInv, BansEndInReach
  <2>2. Escalation[bans[k].level] \in Nat
    BY <1>1, <1>2, EscalationAssumption
  <2>3. bans[k].expires # Forever => bans[k].expires \in Nat
    BY <1>1, <1>2
  <2>4. CASE Escalation[bans[k].level] = 0
    BY <2>4 DEF EndIsInReach
  <2>5. CASE /\ bans[k].expires # Forever
             /\ bans[k].expires <= clock + Escalation[bans[k].level]
    <3>1. bans[k].expires <= clock' + Escalation[bans[k].level]
      BY <2>2, <2>3, <2>5 DEF BanInv, BanTypes
    <3>2. QED
      BY <2>5, <3>1 DEF EndIsInReach
  <2>6. QED
    BY <2>1, <2>4, <2>5 DEF EndIsInReach
<1>3. BanInv'
  BY <1>2 DEF BanInv, BanTypes, BansEndInReach
<1>4. ASSUME NEW k \in Keys, InForce(k)
      PROVE  StillBanned(k)
  BY <1>1, <1>4 DEF InForce, StillBanned, NoSooner
<1>5. QED
  BY <1>3, <1>4 DEF KeptOrCleared

LEMMA InitBans == Init => BanInv
BY DEF Init, BanInit, BanInv, BanTypes, BansEndInReach

(***************************************************************************)
(* No step lowers, shortens or lifts a ban in force, but to clear it.      *)
(***************************************************************************)
LEMMA BansStep ==
  ASSUME BanInv, TrustTypes, [Next]_vars
  PROVE  BanInv' /\ \A k \in Keys : KeptOrCleared(k)
<1> DEFINE Goal == BanInv' /\ \A k \in Keys : KeptOrCleared(k)
<1>0. clock \in Nat
  BY DEF BanInv, BanTypes
<1>1. ASSUME NEW k \in Keys, RecordViolation(k), clock' = clock
      PROVE  Goal
  BY <1>1, RecordKeepsBans DEF KeptOrCleared
<1>2. ASSUME NEW k \in Keys, PruneExpired(k), clock' = clock
      PROVE  Goal
  <2>1. /\ \A j \in Keys : bans'[j] \in {bans[j], KeptBan(j)}
        /\ \A j \in Keys : violations'[j] \in {violations[j], KeptHistory(j)}
    BY <1>2 DEF PruneExpired, BanInv, BanTypes
  <2>2. /\ DOMAIN bans' = Keys /\ bans' = [j \in Keys |-> bans'[j]]
        /\ DOMAIN violations' = Keys /\ violations' = [j \in Keys |-> violations'[j]]
    BY <1>2 DEF PruneExpired, BanInv, BanTypes
  <2>3. QED
    BY <1>2, <2>1, <2>2, TidyingKeepsBans DEF KeptOrCleared
<1>3. ASSUME UNCHANGED <<bans, violations>>, clock' = clock
      PROVE  Goal
  BY <1>0, <1>3, UnchangedBansAreKept
<1>4. ASSUME NEW r \in Requests, task[r] # None
      PROVE  task[r].key \in Keys
  BY <1>4 DEF TrustTypes
<1>5. CASE Tick
  BY <1>0, <1>5, UnchangedBansAreKept DEF Tick, BansAge
<1>6. CASE Administer
  <2>1. clock' = clock
    BY <1>6 DEF Administer
  <2>2. CASE GetActiveBans
    <3>1. /\ \A j \in Keys : bans'[j] \in {bans[j], KeptBan(j)}
          /\ \A j \in Keys : violations'[j] \in {violations[j], KeptHistory(j)}
      BY <2>2 DEF GetActiveBans
    <3>2. /\ DOMAIN bans' = Keys /\ bans' = [j \in Keys |-> bans'[j]]
          /\ DOMAIN violations' = Keys
          /\ violations' = [j \in Keys |-> violations'[j]]
      BY <2>2 DEF GetActiveBans
    <3>3. QED
      BY <2>1, <3>1, <3>2, TidyingKeepsBans DEF KeptOrCleared
  <2>3. CASE \E k \in Keys : ClearBan(k) /\ pardoned' = {k}
    <3>1. PICK k \in Keys : ClearBan(k) /\ pardoned' = {k}
      BY <2>3
    <3>2. BanInv'
      BY <2>1, <3>1 DEF ClearBan, BanInv, BanTypes, BansEndInReach, EndIsInReach
    <3>3. ASSUME NEW j \in Keys, InForce(j), j # k
          PROVE  StillBanned(j)
      <4>1. bans[j].level \in Int /\ bans[j] # None
            /\ bans[j].expires \in Nat \union {Forever}
        BY <3>3 DEF InForce, BanInv, BanTypes, BanEntries
      <4>2. bans'[j] = bans[j]
        BY <3>1, <3>3 DEF ClearBan, BanInv, BanTypes
      <4>3. QED
        BY <4>1, <4>2 DEF StillBanned, NoSooner
    <3>4. QED
      BY <3>1, <3>2, <3>3 DEF KeptOrCleared
  <2>4. CASE ClearAll /\ pardoned' = Keys
    <3>1. BanInv'
      BY <1>0, <2>1, <2>4 DEF ClearAll, BanInv, BanTypes, BansEndInReach
    <3>2. QED
      BY <2>4, <3>1 DEF KeptOrCleared
  <2>5. CASE UNCHANGED banVars
    BY <1>3, <2>1, <2>5 DEF banVars
  <2>6. QED
    BY <1>6, <2>2, <2>3, <2>4, <2>5 DEF Administer
<1>7. ASSUME NEW k \in Keys, HitHoneypot(k)
      PROVE  Goal
  BY <1>1, <1>7 DEF HitHoneypot
<1>8. ASSUME NEW k \in Keys, TurnAway(k)
      PROVE  Goal
  BY <1>2, <1>8 DEF TurnAway
<1>9. ASSUME NEW r \in Requests, NEW k \in Keys, Admit(r, k)
      PROVE  Goal
  BY <1>2, <1>9 DEF Admit
<1>10. ASSUME NEW r \in Requests,
              Grant(r) \/ NextRule(r) \/ Succeed(r) \/ End(r)
       PROVE  Goal
  BY <1>3, <1>10 DEF Grant, NextRule, Succeed, End, banVars
<1>11. ASSUME NEW r \in Requests,
              Deny(r) \/ DenyInShadow(r) \/ FailChallenge(r)
       PROVE  Goal
  <2>1. task[r] # None
    BY <1>11 DEF Deny, DenyInShadow, FailChallenge, Awaits
  <2>2. RecordViolation(task[r].key) /\ clock' = clock
    BY <1>11 DEF Deny, DenyInShadow, FailChallenge, ReportViolation
  <2>3. QED
    BY <1>1, <1>4, <2>1, <2>2
<1>12. CASE UNCHANGED vars
  BY <1>3, <1>12 DEF vars, banVars
<1>13. QED
  BY <1>5, <1>6, <1>7, <1>8, <1>9, <1>10, <1>11, <1>12 DEF Next, Serve

(***************************************************************************)
(* Verdicts that only go, and are never made, stay earned.                 *)
(***************************************************************************)
LEMMA LosingVerdicts ==
  ASSUME TrustInv, TrustTypes',
         \A k \in Keys : states'[k] \in {states[k], None},
         \A k \in Keys : clean'[k] = clean[k] \/ states'[k] = None,
         \A k \in Keys : streak'[k] = 0 \/ (streak'[k] = streak[k] /\ clean'[k] = clean[k])
  PROVE  TrustInv'
<1>1. StreaksAreClean'
  BY DEF TrustInv, TrustTypes, StreaksAreClean
<1>2. VerdictsAreEarned'
  BY DEF TrustInv, VerdictsAreEarned
<1>3. QED
  BY <1>1, <1>2 DEF TrustInv

(***************************************************************************)
(* A violation takes the belief, whether or not the streak goes with it.  *)
(***************************************************************************)
LEMMA ViolationKeepsTrustEarned ==
  ASSUME TrustInv, NEW k \in Keys, TrustTypes', Poison(k),
         \/ ForgetStreak(k) /\ clean' = [clean EXCEPT ![k] = 0]
         \/ UNCHANGED pipelineVars
  PROVE  TrustInv'
<1>1. \A j \in Keys : states'[j] \in {states[j], None}
  BY DEF Poison, Drop, TrustInv, TrustTypes
<1>2. \A j \in Keys : clean'[j] = clean[j] \/ states'[j] = None
  BY DEF Poison, Drop, TrustInv, TrustTypes, pipelineVars
<1>3. \A j \in Keys :
        streak'[j] = 0 \/ (streak'[j] = streak[j] /\ clean'[j] = clean[j])
  BY DEF ForgetStreak, TrustInv, TrustTypes, pipelineVars
<1>4. QED
  BY <1>1, <1>2, <1>3, LosingVerdicts

(***************************************************************************)
(* The success that completes a streak is the only one that makes a        *)
(* belief, and by then the history is complete, too.                      *)
(***************************************************************************)
LEMMA SuccessKeepsTrustEarned ==
  ASSUME TrustInv, NEW k \in Keys, CountSuccess(k),
         task' \in [Requests ->
           [key : Keys, at : {"rule", "application"}] \union {None}]
  PROVE  TrustInv'
<1> USE ProtectionAssumption
<1>0. /\ DOMAIN states = Keys
      /\ streak \in [Keys -> 0..(SuccessThreshold - 1)]
      /\ clean \in [Keys -> 0..SuccessThreshold]
      /\ task' \in [Requests ->
            [key : Keys, at : {"rule", "application"}] \union {None}]
      /\ \A j \in Keys : streak[j] <= clean[j]
  BY DEF TrustInv, TrustTypes, StreaksAreClean
<1>1. clean' = [clean EXCEPT ![k] = AtMost(SuccessThreshold, clean[k] + 1)]
  BY DEF CountSuccess
<1>2. /\ clean' \in [Keys -> 0..SuccessThreshold]
      /\ \A j \in Keys : clean[j] <= clean'[j]
      /\ clean[k] + 1 <= SuccessThreshold => clean'[k] = clean[k] + 1
      /\ clean[k] + 1 >= SuccessThreshold => clean'[k] = SuccessThreshold
  BY <1>0, <1>1 DEF AtMost
<1>3. CASE /\ streak[k] + 1 >= SuccessThreshold
           /\ UpdateTrusted(k)
           /\ ForgetStreak(k)
  <2>1. clean'[k] = SuccessThreshold
    BY <1>0, <1>2, <1>3
  <2>2. /\ streak' = [streak EXCEPT ![k] = 0]
        /\ streak' \in [Keys -> 0..(SuccessThreshold - 1)]
    BY <1>0, <1>3 DEF ForgetStreak
  <2>3. /\ DOMAIN states' = Keys
        /\ \A j \in Keys \ {k} : states'[j] \in {states[j], None}
    BY <1>0, <1>3 DEF UpdateTrusted
  <2>4. StreaksAreClean'
    BY <1>0, <1>2, <2>2 DEF StreaksAreClean
  <2>5. VerdictsAreEarned'
    <3>1. ASSUME NEW j \in Keys \ {k}, states'[j] # None,
                 states'[j].level = "trusted"
          PROVE  clean'[j] = SuccessThreshold
      BY <1>0, <1>1, <2>3, <3>1 DEF TrustInv, VerdictsAreEarned
    <3>2. QED
      BY <2>1, <3>1 DEF VerdictsAreEarned
  <2>6. QED
    BY <1>0, <1>2, <2>2, <2>3, <2>4, <2>5 DEF TrustInv, TrustTypes
<1>4. CASE /\ streak[k] + 1 < SuccessThreshold
           /\ UNCHANGED trustVars
           /\ \A j \in Keys \ {k} : streak'[j] \in {0, streak[j]}
           /\ streak'[k] = streak[k] + 1
           /\ streak' = [j \in Keys |-> streak'[j]]
  <2>1. streak' \in [Keys -> 0..(SuccessThreshold - 1)]
    BY <1>0, <1>4
  <2>2. streak'[k] <= clean'[k]
    BY <1>0, <1>2, <1>4
  <2>3. \A j \in Keys \ {k} : streak'[j] <= clean'[j]
    BY <1>0, <1>2, <1>4
  <2>4. VerdictsAreEarned'
    <3>1. ASSUME NEW j \in Keys, clean[j] = SuccessThreshold
          PROVE  clean'[j] = SuccessThreshold
      BY <1>0, <1>2, <3>1
    <3>2. QED
      BY <1>4, <3>1 DEF VerdictsAreEarned, TrustInv, trustVars
  <2>5. QED
    BY <1>0, <1>2, <1>4, <2>1, <2>2, <2>3, <2>4
       DEF TrustInv, TrustTypes, StreaksAreClean, trustVars
<1>5. QED
  <2>1. CASE /\ StreakIsFull(k)
             /\ UpdateTrusted(k)
             /\ ForgetStreak(k)
    BY <1>3, <2>1 DEF StreakIsFull
  <2>2. CASE ~(/\ StreakIsFull(k)
               /\ UpdateTrusted(k)
               /\ ForgetStreak(k))
    <3> DEFINE full == Len(tracked) >= MaxTracked /\ streak[k] = 0
               kept == [j \in Keys |->
                         IF full /\ j = Head(tracked) THEN 0 ELSE streak[j]]
    <3>1. /\ ~StreakIsFull(k)
          /\ UNCHANGED trustVars
          /\ streak' = [kept EXCEPT ![k] = streak[k] + 1]
      BY <2>2 DEF CountSuccess
    <3>2. streak[k] + 1 < SuccessThreshold
      BY <1>0, <3>1 DEF StreakIsFull
    <3>3. /\ streak' = [j \in Keys |-> streak'[j]]
          /\ streak'[k] = streak[k] + 1
          /\ \A j \in Keys \ {k} : streak'[j] \in {0, streak[j]}
      BY <3>1
    <3>4. QED
      BY <1>4, <3>1, <3>2, <3>3
  <2>3. QED
    BY <2>1, <2>2

(***************************************************************************)
(* The belief that check returns is the cached one.                       *)
(***************************************************************************)
LEMMA EarnedVerdictsAreEarnedTrust == TrustInv => TrustIsEarned
BY DEF TrustInv, VerdictsAreEarned, TrustIsEarned, LevelOf

LEMMA InitTrust == Init => TrustInv
<1> SUFFICES ASSUME Init
             PROVE  TrustInv
  OBVIOUS
<1> USE ProtectionAssumption
<1>1. TrustTypes
  BY DEF Init, TrustInit, TrustTypes
<1>2. StreaksAreClean /\ VerdictsAreEarned
  BY DEF Init, TrustInit, StreaksAreClean, VerdictsAreEarned
<1>3. QED
  BY <1>1, <1>2 DEF TrustInv

(***************************************************************************)
(* No step makes a belief that was not earned.                            *)
(***************************************************************************)
LEMMA TrustStep ==
  ASSUME TrustInv, [Next]_vars
  PROVE  TrustInv'
<1> DEFINE Tasks == [Requests ->
             [key : Keys, at : {"rule", "application"}] \union {None}]
<1>0. /\ DOMAIN states = Keys
      /\ streak \in [Keys -> 0..(SuccessThreshold - 1)]
      /\ clean \in [Keys -> 0..SuccessThreshold]
      /\ task \in Tasks
  BY DEF TrustInv, TrustTypes
<1>1. ASSUME DOMAIN states' = Keys,
             \A k \in Keys : states'[k] \in {states[k], None},
             UNCHANGED pipelineVars, task' \in Tasks
      PROVE  TrustInv'
  <2>1. TrustTypes'
    BY <1>0, <1>1 DEF TrustTypes, pipelineVars
  <2>2. QED
    BY <1>1, <2>1, LosingVerdicts DEF pipelineVars
<1>2. ASSUME NEW k \in Keys, CheckTrust(k) \/ LookUpState(k),
             UNCHANGED pipelineVars, task' \in Tasks
      PROVE  TrustInv'
  <2>1. /\ DOMAIN states' = Keys
        /\ \A j \in Keys : states'[j] \in {states[j], None}
    BY <1>0, <1>2 DEF CheckTrust, LookUpState, Drop, trustVars
  <2>2. QED
    BY <1>1, <1>2, <2>1
<1>3. ASSUME UNCHANGED <<trustVars, pipelineVars>>, task' \in Tasks
      PROVE  TrustInv'
  BY <1>0, <1>1, <1>3 DEF trustVars
<1>4. ASSUME NEW r \in Requests, task[r] # None
      PROVE  /\ task[r].key \in Keys
             /\ [task EXCEPT ![r] = None] \in Tasks
             /\ [task EXCEPT ![r].at = "application"] \in Tasks
             /\ [task EXCEPT ![r].at = "rule"] \in Tasks
  <2>1. task[r] \in [key : Keys, at : {"rule", "application"}]
    BY <1>0, <1>4
  <2>2. /\ [task[r] EXCEPT !.at = "application"] \in
             [key : Keys, at : {"rule", "application"}]
        /\ [task[r] EXCEPT !.at = "rule"] \in
             [key : Keys, at : {"rule", "application"}]
    BY <2>1
  <2>3. QED
    BY <1>0, <2>1, <2>2
<1>5. CASE Tick
  BY <1>0, <1>3, <1>5 DEF Tick
<1>6. CASE Administer
  <2>1. UNCHANGED pipelineVars /\ task' \in Tasks
    BY <1>0, <1>6 DEF Administer
  <2>2. CASE UNCHANGED trustVars
    BY <1>3, <2>1, <2>2
  <2>3. CASE \E k \in Keys : LookUpState(k)
    BY <1>2, <2>1, <2>3
  <2>4. CASE \E k \in Keys : BanTrust(k)
    <3>1. PICK k \in Keys : BanTrust(k)
      BY <2>4
    <3>2. states' = [states EXCEPT ![k] = [level |-> "banned", expires |-> Forever]]
      BY <3>1 DEF BanTrust
    <3>3. /\ states'[k].level # "trusted"
          /\ \A j \in Keys \ {k} : states'[j] = states[j]
      BY <1>0, <3>2
    <3>4. TrustTypes' /\ StreaksAreClean'
      BY <1>0, <2>1, <3>2
         DEF TrustInv, TrustTypes, StreaksAreClean, pipelineVars
    <3>5. VerdictsAreEarned'
      BY <2>1, <3>3 DEF TrustInv, VerdictsAreEarned, pipelineVars
    <3>6. QED
      BY <3>4, <3>5 DEF TrustInv
  <2>5. CASE ClearTrust
    BY <1>1, <2>1, <2>5 DEF ClearTrust
  <2>6. QED
    BY <1>6, <2>2, <2>3, <2>4, <2>5 DEF Administer
<1>7. ASSUME NEW k \in Keys, HitHoneypot(k) \/ TurnAway(k)
      PROVE  TrustInv'
  BY <1>0, <1>3, <1>7 DEF HitHoneypot, TurnAway
<1>8. ASSUME NEW r \in Requests, NEW k \in Keys, Admit(r, k)
      PROVE  TrustInv'
  <2>1. /\ CheckTrust(k) /\ UNCHANGED pipelineVars
        /\ task' = [task EXCEPT ![r] = [key |-> k, at |-> "rule"]]
    BY <1>8 DEF Admit
  <2>2. task' \in Tasks
    BY <1>0, <2>1
  <2>3. QED
    BY <1>2, <2>1, <2>2
<1>9. ASSUME NEW r \in Requests, Grant(r)
      PROVE  TrustInv'
  BY <1>3, <1>4, <1>9 DEF Grant, Awaits
<1>10. ASSUME NEW r \in Requests, NextRule(r)
       PROVE  TrustInv'
  BY <1>2, <1>4, <1>10 DEF NextRule, Awaits
<1>11. ASSUME NEW r \in Requests, Deny(r) \/ DenyInShadow(r) \/ FailChallenge(r)
       PROVE  TrustInv'
  <2> DEFINE k == task[r].key
  <2>1. k \in Keys /\ task' \in Tasks
    BY <1>4, <1>11 DEF Deny, DenyInShadow, FailChallenge, Awaits
  <2>2. /\ Poison(k)
        /\ \/ ForgetStreak(k) /\ clean' = [clean EXCEPT ![k] = 0]
           \/ UNCHANGED pipelineVars
    BY <1>11 DEF Deny, DenyInShadow, FailChallenge, ReportViolation
  <2>3. /\ DOMAIN states' = Keys
        /\ streak' \in [Keys -> 0..(SuccessThreshold - 1)]
        /\ clean' \in [Keys -> 0..SuccessThreshold]
    BY <1>0, <2>2, ProtectionAssumption
       DEF Poison, Drop, ForgetStreak, pipelineVars
  <2>4. TrustTypes'
    BY <2>1, <2>3 DEF TrustTypes
  <2>5. QED
    BY <2>1, <2>2, <2>4, ViolationKeepsTrustEarned
<1>12. ASSUME NEW r \in Requests, Succeed(r)
       PROVE  TrustInv'
  BY <1>4, <1>12, SuccessKeepsTrustEarned DEF Succeed, Awaits
<1>13. ASSUME NEW r \in Requests, End(r)
       PROVE  TrustInv'
  BY <1>3, <1>4, <1>13 DEF End
<1>14. CASE UNCHANGED vars
  BY <1>0, <1>3, <1>14 DEF vars
<1>15. QED
  BY <1>5, <1>6, <1>7, <1>8, <1>9, <1>10, <1>11, <1>12, <1>13, <1>14 DEF Next, Serve

-----------------------------------------------------------------------------
(* What a key's list of violations has to do with its offences *)

(***************************************************************************)
(* The list v that the ban manager keeps and the offences o of the window  *)
(* that ends at time c agree from the latest on; what the list has beyond  *)
(* is too old, and what it lacks did not fit.                              *)
(***************************************************************************)
Agree(v, o, c) ==
  /\ v \in Seq(Nat) /\ o \in Seq(Nat)
  /\ InOrder(v) /\ InOrder(o)
  /\ \A i \in 1..Len(v) : FromEnd(v, i) <= c
  /\ \A i \in 1..Len(o) : FromEnd(o, i) <= c /\ c - FromEnd(o, i) < BanWindow
  /\ \A i \in 1..Len(v) : i <= Len(o) => FromEnd(v, i) = FromEnd(o, i)
  /\ \A i \in 1..Len(v) : i > Len(o) => c - FromEnd(v, i) >= BanWindow
  /\ Len(v) >= Len(o) \/ Len(v) >= MaxViolations

LEMMA NothingAgrees ==
  ASSUME NEW c \in Nat
  PROVE  Agree(<<>>, <<>>, c)
<1>1. << >> \in Seq(Nat) /\ Len(<< >>) = 0
  BY EmptySeq
<1>2. QED
  BY <1>1 DEF Agree, InOrder

LEMMA PruningAgrees ==
  ASSUME NEW v, NEW o, NEW c \in Nat, Agree(v, o, c)
  PROVE  /\ Agree(Within(v, BanWindow, c), o, c)
         /\ Len(Within(v, BanWindow, c)) <= Len(o)
<1> DEFINE w == Within(v, BanWindow, c)
<1>0. BanWindow \in Nat /\ MaxViolations \in Nat
  BY BanAssumption
<1>1. /\ Len(v) \in Nat /\ Len(o) \in Nat
      /\ \A i \in 1..Len(v) : FromEnd(v, i) \in Nat
      /\ \A i \in 1..Len(o) : FromEnd(o, i) \in Nat
  BY TimesAreNumbers DEF Agree
<1>2. /\ EndOf(w, v)
      /\ \A i \in 1..Len(v) : i <= Len(w) <=> c - FromEnd(v, i) < BanWindow
  BY <1>0, WithinIsTheWindow DEF Agree
<1> HIDE DEF w
<1>3. /\ w \in Seq(Nat) /\ Len(w) \in Nat /\ Len(w) <= Len(v)
      /\ \A i \in 1..Len(w) : i \in 1..Len(v) /\ FromEnd(w, i) = FromEnd(v, i)
  <2>1. w \in Seq(Nat) /\ Len(w) <= Len(v)
    BY <1>2 DEF EndOf
  <2>2. Len(w) \in Nat
    BY <2>1, TimesAreNumbers
  <2>3. QED
    BY <1>1, <1>2, <2>1, <2>2 DEF EndOf
<1>4. Len(w) <= Len(o)
  <2> SUFFICES ASSUME Len(w) > Len(o) PROVE FALSE
    BY <1>1, <1>3
  <2>1. Len(w) \in 1..Len(w) /\ Len(w) \in 1..Len(v)
    BY <1>1, <1>3
  <2>2. c - FromEnd(v, Len(w)) >= BanWindow /\ FromEnd(v, Len(w)) \in Nat
    BY <1>1, <2>1 DEF Agree
  <2>3. c - FromEnd(v, Len(w)) < BanWindow
    BY <1>2, <2>1
  <2>4. QED
    BY <1>0, <2>2, <2>3
<1>5. Len(w) = Len(v) \/ Len(w) >= Len(o)
  <2> SUFFICES ASSUME Len(w) < Len(v), Len(w) < Len(o) PROVE FALSE
    BY <1>1, <1>3
  <2>1. Len(w) + 1 \in 1..Len(v) /\ Len(w) + 1 \in 1..Len(o) /\ ~(Len(w) + 1 <= Len(w))
    BY <1>1, <1>3
  <2>2. ~(c - FromEnd(v, Len(w) + 1) < BanWindow)
    BY <1>2, <2>1
  <2>3. /\ FromEnd(v, Len(w) + 1) = FromEnd(o, Len(w) + 1)
        /\ c - FromEnd(o, Len(w) + 1) < BanWindow
    BY <2>1, <1>1 DEF Agree
  <2>4. QED
    BY <2>2, <2>3
<1>6. InOrder(w)
  BY <1>1, <1>3 DEF Agree, InOrder
<1>7. /\ \A i \in 1..Len(w) : FromEnd(w, i) <= c
      /\ \A i \in 1..Len(w) : i <= Len(o) => FromEnd(w, i) = FromEnd(o, i)
      /\ \A i \in 1..Len(w) : ~(i > Len(o))
  BY <1>1, <1>3, <1>4 DEF Agree
<1>8. Len(w) >= Len(o) \/ Len(w) >= MaxViolations
  BY <1>0, <1>1, <1>3, <1>5 DEF Agree
<1>9. Agree(w, o, c)
  <2>1. /\ o \in Seq(Nat) /\ InOrder(o)
        /\ \A i \in 1..Len(o) : FromEnd(o, i) <= c /\ c - FromEnd(o, i) < BanWindow
    BY DEF Agree
  <2>2. QED
    BY <1>3, <1>6, <1>7, <1>8, <2>1 DEF Agree
<1>10. QED
  BY <1>4, <1>9 DEF w

LEMMA RecordingAgrees ==
  ASSUME NEW v, NEW o, NEW c \in Nat, Agree(v, o, c), Len(v) <= Len(o)
  PROVE  LET new == Newest(Append(v, c), MaxViolations)
             all == Append(o, c)
         IN /\ Agree(new, all, c)
            /\ Len(all) = Len(o) + 1
            /\ Len(new) <= Len(all)
            /\ Len(new) = Len(all) \/ Len(new) >= MaxViolations
<1> DEFINE longer == Append(v, c)
           new == Newest(longer, MaxViolations)
           all == Append(o, c)
<1>0. BanWindow \in Nat \ {0} /\ MaxViolations \in Nat
  BY BanAssumption
<1>1. /\ v \in Seq(Nat) /\ o \in Seq(Nat) /\ Len(v) \in Nat /\ Len(o) \in Nat
      /\ \A i \in 1..Len(v) : FromEnd(v, i) \in Nat
      /\ \A i \in 1..Len(o) : FromEnd(o, i) \in Nat
  BY TimesAreNumbers DEF Agree
<1>2. /\ longer \in Seq(Nat) /\ Len(longer) = Len(v) + 1
      /\ FromEnd(longer, 1) = c
      /\ \A i \in 1..Len(v) : FromEnd(longer, i + 1) = FromEnd(v, i)
  BY <1>1, AppendingIsLatest
<1>3. /\ all \in Seq(Nat) /\ Len(all) = Len(o) + 1
      /\ FromEnd(all, 1) = c
      /\ \A i \in 1..Len(o) : FromEnd(all, i + 1) = FromEnd(o, i)
  BY <1>1, AppendingIsLatest
<1>4. /\ EndOf(new, longer)
      /\ Len(new) = IF Len(longer) > MaxViolations THEN MaxViolations ELSE Len(longer)
  BY <1>0, <1>2, NewestIsTheEnd
<1> HIDE DEF longer, new, all
<1>5. /\ new \in Seq(Nat) /\ Len(new) \in Nat /\ Len(new) <= Len(v) + 1
      /\ \A i \in 1..Len(new) : FromEnd(new, i) = FromEnd(longer, i)
      /\ Len(new) = Len(v) + 1 \/ Len(new) >= MaxViolations
  BY <1>0, <1>1, <1>2, <1>4 DEF EndOf
<1>6. ASSUME NEW i \in 2..Len(new)
      PROVE  /\ i - 1 \in 1..Len(v) /\ FromEnd(new, i) = FromEnd(v, i - 1)
             /\ i - 1 \in 1..Len(o) /\ FromEnd(all, i) = FromEnd(o, i - 1)
  <2>1. i \in 1..Len(new) /\ i - 1 \in 1..Len(v) /\ i - 1 \in 1..Len(o) /\ (i - 1) + 1 = i
    <3>1. /\ i \in 2..Len(new) /\ Len(new) \in Nat /\ Len(new) <= Len(v) + 1
          /\ Len(v) \in Nat /\ Len(o) \in Nat /\ Len(v) <= Len(o)
      BY <1>1, <1>5
    <3>2. QED
      BY ONLY <3>1
  <2>2. QED
    BY <1>2, <1>3, <1>5, <2>1
<1>7. ASSUME NEW i \in 1..Len(new)
      PROVE  \/ i = 1 /\ FromEnd(new, i) = c /\ FromEnd(all, i) = c
             \/ i \in 2..Len(new)
  BY <1>1, <1>2, <1>3, <1>5
<1>8. ASSUME NEW i \in 1..Len(all)
      PROVE  \/ i = 1 /\ FromEnd(all, i) = c
             \/ i - 1 \in 1..Len(o) /\ FromEnd(all, i) = FromEnd(o, i - 1)
  <2>1. i = 1 \/ (i - 1 \in 1..Len(o) /\ (i - 1) + 1 = i)
    BY <1>1, <1>3
  <2>2. QED
    BY <1>3, <2>1
<1>9. InOrder(new)
  <2> SUFFICES ASSUME NEW i \in 1..Len(new), NEW j \in 1..Len(new), i <= j
               PROVE  FromEnd(new, j) <= FromEnd(new, i)
    BY DEF InOrder
  <2>1. CASE j = 1
    BY <1>5, <1>7, <2>1
  <2>2. CASE j # 1
    <3>1. j - 1 \in 1..Len(v) /\ FromEnd(new, j) = FromEnd(v, j - 1)
      BY <1>6, <1>7, <2>2
    <3>2. CASE i = 1
      BY <1>7, <3>1, <3>2 DEF Agree
    <3>3. CASE i # 1
      <4>1. i - 1 \in 1..Len(v) /\ FromEnd(new, i) = FromEnd(v, i - 1)
        BY <1>6, <1>7, <3>3
      <4>2. i - 1 <= j - 1
        BY <1>5
      <4>3. QED
        BY <3>1, <4>1, <4>2 DEF Agree, InOrder
    <3>4. QED
      BY <3>2, <3>3
  <2>3. QED
    BY <2>1, <2>2
<1>10. InOrder(all)
  <2> SUFFICES ASSUME NEW i \in 1..Len(all), NEW j \in 1..Len(all), i <= j
               PROVE  FromEnd(all, j) <= FromEnd(all, i)
    BY DEF InOrder
  <2>1. CASE j = 1
    BY <1>1, <1>3, <1>8, <2>1
  <2>2. CASE j # 1
    <3>1. j - 1 \in 1..Len(o) /\ FromEnd(all, j) = FromEnd(o, j - 1)
      BY <1>8, <2>2
    <3>2. CASE i = 1
      BY <1>3, <3>1, <3>2 DEF Agree
    <3>3. CASE i # 1
      <4>1. i - 1 \in 1..Len(o) /\ FromEnd(all, i) = FromEnd(o, i - 1)
        BY <1>8, <3>3
      <4>2. i - 1 <= j - 1
        BY <1>1, <1>3
      <4>3. QED
        BY <3>1, <4>1, <4>2 DEF Agree, InOrder
    <3>4. QED
      BY <3>2, <3>3
  <2>3. QED
    BY <2>1, <2>2
<1>11. /\ \A i \in 1..Len(new) : FromEnd(new, i) <= c
       /\ \A i \in 1..Len(new) : FromEnd(new, i) = FromEnd(all, i)
  <2> SUFFICES ASSUME NEW i \in 1..Len(new)
               PROVE  FromEnd(new, i) <= c /\ FromEnd(new, i) = FromEnd(all, i)
    OBVIOUS
  <2>1. CASE i = 1
    BY <1>7, <2>1
  <2>2. CASE i \in 2..Len(new)
    <3> DEFINE j == i - 1
    <3>1. /\ j \in 1..Len(v) /\ FromEnd(new, i) = FromEnd(v, j)
          /\ j \in 1..Len(o) /\ FromEnd(all, i) = FromEnd(o, j)
      BY <1>6, <2>2
    <3> HIDE DEF j
    <3>2. FromEnd(v, j) <= c /\ FromEnd(v, j) = FromEnd(o, j)
      BY <1>1, <3>1 DEF Agree
    <3>3. QED
      BY <3>1, <3>2
  <2>3. QED
    BY <1>7, <2>1, <2>2
<1>12. \A i \in 1..Len(all) : FromEnd(all, i) <= c /\ c - FromEnd(all, i) < BanWindow
  BY <1>0, <1>8 DEF Agree
<1>13. /\ Len(new) = Len(all) \/ Len(new) >= MaxViolations
       /\ Len(new) <= Len(all)
       /\ \A i \in 1..Len(new) : ~(i > Len(all))
  <2>1. Len(v) >= Len(o) \/ Len(v) >= MaxViolations
    BY DEF Agree
  <2>2. /\ Len(all) = Len(o) + 1 /\ Len(new) \in Nat /\ Len(new) <= Len(v) + 1
        /\ Len(new) = Len(v) + 1 \/ Len(new) >= MaxViolations
        /\ Len(v) \in Nat /\ Len(o) \in Nat /\ Len(v) <= Len(o)
    BY <1>1, <1>3, <1>5
  <2>3. QED
    BY ONLY <1>0, <2>1, <2>2
<1>14. Agree(new, all, c)
  BY <1>1, <1>3, <1>5, <1>9, <1>10, <1>11, <1>12, <1>13 DEF Agree
<1>15. QED
  BY <1>3, <1>13, <1>14 DEF new, all, longer

LEMMA AgeingAgrees ==
  ASSUME NEW v, NEW o, NEW c \in Nat, Agree(v, o, c), NEW d \in Nat, c <= d
  PROVE  /\ Agree(v, Within(o, BanWindow, d), d)
         /\ Len(Within(o, BanWindow, d)) <= Len(o)
<1> DEFINE w == Within(o, BanWindow, d)
<1>0. BanWindow \in Nat /\ MaxViolations \in Nat
  BY BanAssumption
<1>1. /\ v \in Seq(Nat) /\ o \in Seq(Nat) /\ Len(v) \in Nat /\ Len(o) \in Nat
      /\ \A i \in 1..Len(v) : FromEnd(v, i) \in Nat
      /\ \A i \in 1..Len(o) : FromEnd(o, i) \in Nat
  BY TimesAreNumbers DEF Agree
<1>2. /\ EndOf(w, o)
      /\ \A i \in 1..Len(o) : i <= Len(w) <=> d - FromEnd(o, i) < BanWindow
  BY <1>0, WithinIsTheWindow DEF Agree
<1> HIDE DEF w
<1>3. /\ w \in Seq(Nat) /\ Len(w) \in Nat /\ Len(w) <= Len(o)
      /\ \A i \in 1..Len(w) : i \in 1..Len(o) /\ FromEnd(w, i) = FromEnd(o, i)
  <2>1. w \in Seq(Nat) /\ Len(w) <= Len(o)
    BY <1>2 DEF EndOf
  <2>2. Len(w) \in Nat
    BY <2>1, TimesAreNumbers
  <2>3. QED
    BY <1>1, <1>2, <2>1, <2>2 DEF EndOf
<1>4. InOrder(w) /\ InOrder(v)
  BY <1>1, <1>3 DEF Agree, InOrder
<1>5. \A i \in 1..Len(v) : FromEnd(v, i) <= d
  BY <1>1 DEF Agree
<1>6. \A i \in 1..Len(w) : FromEnd(w, i) <= d /\ d - FromEnd(w, i) < BanWindow
  BY <1>1, <1>2, <1>3 DEF Agree
<1>7. \A i \in 1..Len(v) : i <= Len(w) => FromEnd(v, i) = FromEnd(w, i)
  BY <1>1, <1>3 DEF Agree
<1>8. ASSUME NEW i \in 1..Len(v), i > Len(w)
      PROVE  d - FromEnd(v, i) >= BanWindow
  <2>1. CASE i > Len(o)
    BY <1>0, <1>1, <2>1 DEF Agree
  <2>2. CASE i <= Len(o)
    <3>1. i \in 1..Len(o) /\ FromEnd(v, i) = FromEnd(o, i) /\ ~(i <= Len(w))
      BY <1>1, <1>3, <1>8, <2>2 DEF Agree
    <3>2. ~(d - FromEnd(o, i) < BanWindow) /\ FromEnd(o, i) \in Nat
      BY <1>1, <1>2, <3>1
    <3>3. QED
      BY <1>0, <3>1, <3>2
  <2>3. QED
    BY <1>1, <2>1, <2>2
<1>9. Len(v) >= Len(w) \/ Len(v) >= MaxViolations
  BY <1>0, <1>1, <1>3 DEF Agree
<1>10. Agree(v, w, d)
  BY <1>1, <1>3, <1>4, <1>5, <1>6, <1>7, <1>8, <1>9 DEF Agree
<1>11. QED
  BY <1>3, <1>10 DEF w

HistoriesAgree ==
  /\ offences \in [Keys -> Seq(Nat)]
  /\ \A k \in Keys : Agree(violations[k], offences[k], clock)

\* What BansAreEarned and OffendersAreBanned say of one key.
Earned(k) ==
  bans'[k] # bans[k] /\ bans'[k] # None
    => Len(offences'[k]) >= Threshold + 2 * (bans'[k].level - 1)

BannedIfDue(k) ==
  EnoughOffences(k) /\ (bans[k] = None \/ InForce(k)) => InForce(k)'

(***************************************************************************)
(* Recording a violation keeps list and history in agreement; the count    *)
(* that decides about a ban is that of the history, or of a full list,     *)
(* which is enough for a ban.                                              *)
(***************************************************************************)
LEMMA RecordIsFair ==
  ASSUME BanInv, HistoriesAgree, NEW k \in Keys, RecordViolation(k), clock' = clock
  PROVE  HistoriesAgree' /\ \A j \in Keys : Earned(j) /\ BannedIfDue(j)
<1> DEFINE recent == Recent(k)
           listed == Newest(Append(recent, clock), MaxViolations)
           howMany == Len(listed)
           new == [level |-> Level(howMany), expires |-> Deadline(Escalation[Level(howMany)])]
<1>0. /\ clock \in Nat
      /\ bans \in [Keys -> BanEntries \union {None}]
      /\ violations \in [Keys -> Seq(Nat)] /\ offences \in [Keys -> Seq(Nat)]
      /\ Threshold \in Nat \ {0} /\ MaxViolations \in Nat /\ MaxViolations >= Threshold
  BY BanAssumption DEF BanInv, BanTypes, HistoriesAgree
<1>1. Agree(recent, offences[k], clock) /\ Len(recent) <= Len(offences[k])
  BY <1>0, PruningAgrees DEF Recent, HistoriesAgree
<1>2. /\ violations' = [violations EXCEPT ![k] = listed]
      /\ offences' = [offences EXCEPT ![k] = Append(offences[k], clock)]
      /\ IF Escalates(k, howMany) THEN bans' = [bans EXCEPT ![k] = new] ELSE bans' = bans
  BY DEF RecordViolation
<1> HIDE DEF recent
<1>3. /\ Agree(listed, Append(offences[k], clock), clock)
      /\ Len(Append(offences[k], clock)) = Len(offences[k]) + 1
      /\ howMany <= Len(Append(offences[k], clock))
      /\ howMany = Len(Append(offences[k], clock)) \/ howMany >= MaxViolations
  BY <1>0, <1>1, RecordingAgrees
<1>4. howMany \in Nat /\ Len(offences[k]) \in Nat
  <2>1. listed \in Seq(Nat) /\ offences[k] \in Seq(Nat)
    BY <1>0, <1>3 DEF Agree
  <2>2. QED
    BY <2>1, TimesAreNumbers
<1> HIDE DEF listed
<1>5. /\ violations'[k] = listed /\ offences'[k] = Append(offences[k], clock)
      /\ \A j \in Keys \ {k} :
           /\ violations'[j] = violations[j] /\ offences'[j] = offences[j]
           /\ bans'[j] = bans[j]
  BY <1>0, <1>2
<1>6. HistoriesAgree'
  <2>1. Append(offences[k], clock) \in Seq(Nat)
    BY <1>3 DEF Agree
  <2>2. offences' \in [Keys -> Seq(Nat)]
    BY <1>0, <1>2, <2>1
  <2>3. \A j \in Keys : Agree(violations'[j], offences'[j], clock')
    BY <1>3, <1>5 DEF HistoriesAgree
  <2>4. QED
    BY <2>2, <2>3 DEF HistoriesAgree
<1>7. ASSUME NEW j \in Keys \ {k} PROVE Earned(j) /\ BannedIfDue(j)
  <2>1. violations'[j] = violations[j] /\ offences'[j] = offences[j] /\ bans'[j] = bans[j]
    BY <1>5
  <2>2. Len(offences[j]) \in Nat
    BY <1>0, TimesAreNumbers
  <2>3. QED
    BY <1>0, <2>1, <2>2 DEF Earned, BannedIfDue, EnoughOffences, Offends
<1>8. CASE ~Escalates(k, howMany)
  <2>1. bans' = bans
    BY <1>2, <1>8
  <2>2. Earned(k)
    BY <2>1 DEF Earned
  <2>3. ASSUME EnoughOffences(k), bans[k] = None \/ InForce(k)
        PROVE  InForce(k)'
    <3>1. howMany >= Threshold
      BY <1>0, <1>3, <1>4, <1>5, <2>3 DEF EnoughOffences
    <3>2. bans[k] # None
      BY <1>8, <3>1 DEF Escalates
    <3>3. QED
      BY <2>1, <2>3, <3>2 DEF InForce, Over
  <2>4. QED
    BY <1>7, <1>6, <2>2, <2>3 DEF BannedIfDue
<1>9. CASE Escalates(k, howMany)
  <2>1. bans'[k] = new
    BY <1>0, <1>2, <1>9
  <2>2. howMany >= Threshold /\ Level(howMany) \in 1..Top
    BY <1>4, <1>9, LevelInRange DEF Escalates
  <2>3. Level(howMany) <= 1 + (howMany - Threshold) \div 2
    BY <1>0, <1>4, <2>2, EscalationAssumption DEF Level, AtMost
  <2>4. Threshold + 2 * (Level(howMany) - 1) <= howMany
    BY <1>0, <1>4, <2>2, <2>3
  <2>5. Earned(k)
    BY <1>0, <1>3, <1>4, <1>5, <2>1, <2>2, <2>4 DEF Earned
  <2>6. Escalation[Level(howMany)] \in Nat
    BY <2>2, EscalationAssumption
  <2>7. new # None /\ (new.expires = Forever \/ clock < new.expires)
    BY <1>0, <2>2, <2>6, BanAssumption DEF Deadline
  <2>8. InForce(k)'
    <3>1. ~(new.expires # Forever /\ clock' >= new.expires)
      BY <1>0, <2>6, <2>7 DEF Deadline
    <3>2. QED
      BY <2>1, <2>7, <3>1 DEF InForce, Over
  <2>9. QED
    BY <1>6, <1>7, <2>5, <2>8 DEF BannedIfDue
<1>10. QED
  BY <1>8, <1>9

(***************************************************************************)
(* Tidying up takes from a list what is too old, and bans nobody.          *)
(***************************************************************************)
LEMMA TidyingIsFair ==
  ASSUME BanInv, HistoriesAgree, clock' = clock, UNCHANGED offences,
         \A j \in Keys : bans'[j] \in {bans[j], KeptBan(j)},
         \A j \in Keys : violations'[j] \in {violations[j], KeptHistory(j)}
  PROVE  HistoriesAgree' /\ \A j \in Keys : Earned(j) /\ BannedIfDue(j)
<1>1. \A j \in Keys : Agree(violations'[j], offences[j], clock)
  BY PruningAgrees DEF BanInv, BanTypes, HistoriesAgree, KeptHistory, Recent
<1>2. HistoriesAgree'
  BY <1>1 DEF HistoriesAgree
<1>3. ASSUME NEW j \in Keys
      PROVE  Earned(j) /\ BannedIfDue(j)
  <2>1. Earned(j)
    BY DEF Earned, KeptBan
  <2>2. Len(offences[j]) \in Nat
    BY TimesAreNumbers DEF HistoriesAgree
  <2>3. ~EnoughOffences(j)
    BY <2>2 DEF EnoughOffences, Offends
  <2>4. QED
    BY <2>1, <2>3 DEF BannedIfDue
<1>4. QED
  BY <1>2, <1>3

(***************************************************************************)
(* Where no ban is imposed and no violation recorded, there is nothing to  *)
(* answer for.                                                             *)
(***************************************************************************)
LEMMA NobodyOffends ==
  ASSUME HistoriesAgree,
         \A j \in Keys : bans'[j] \in {bans[j], None},
         \A j \in Keys : offences'[j] \in {offences[j], <<>>}
  PROVE  \A j \in Keys : Earned(j) /\ BannedIfDue(j)
<1>1. ASSUME NEW j \in Keys
      PROVE  Earned(j) /\ BannedIfDue(j)
  <2>1. Earned(j)
    BY DEF Earned
  <2>2. Len(offences[j]) \in Nat /\ Len(<< >>) = 0
    BY TimesAreNumbers, EmptySeq DEF HistoriesAgree
  <2>3. ~EnoughOffences(j)
    BY <2>2 DEF EnoughOffences, Offends
  <2>4. QED
    BY <2>1, <2>3 DEF BannedIfDue
<1>2. QED
  BY <1>1

LEMMA InitHistories == Init => HistoriesAgree
<1> SUFFICES ASSUME Init PROVE HistoriesAgree
  OBVIOUS
<1>1. /\ clock = 0 /\ violations = [k \in Keys |-> <<>>]
      /\ offences = [k \in Keys |-> <<>>]
  BY DEF Init, BanInit
<1>2. << >> \in Seq(Nat)
  BY EmptySeq
<1>3. QED
  BY <1>1, <1>2, NothingAgrees DEF HistoriesAgree

(***************************************************************************)
(* Every step keeps lists and histories in agreement, imposes no ban that  *)
(* is not earned, and lets no offence pass that is due a ban.              *)
(***************************************************************************)
LEMMA HistoriesStep ==
  ASSUME BanInv, HistoriesAgree, TrustTypes, [Next]_vars
  PROVE  HistoriesAgree' /\ \A k \in Keys : Earned(k) /\ BannedIfDue(k)
<1> DEFINE Goal == HistoriesAgree' /\ \A k \in Keys : Earned(k) /\ BannedIfDue(k)
<1>0. clock \in Nat
  BY DEF BanInv, BanTypes
<1>1. ASSUME NEW k \in Keys, RecordViolation(k), clock' = clock
      PROVE  Goal
  BY <1>1, RecordIsFair
<1>2. ASSUME NEW k \in Keys, PruneExpired(k), clock' = clock
      PROVE  Goal
  BY <1>2, TidyingIsFair DEF PruneExpired, BanInv, BanTypes
<1>3. ASSUME UNCHANGED banVars, clock' = clock
      PROVE  Goal
  <2>1. HistoriesAgree'
    BY <1>3 DEF banVars, HistoriesAgree
  <2>2. QED
    BY <1>3, <2>1, NobodyOffends DEF banVars
<1>4. ASSUME NEW r \in Requests, task[r] # None
      PROVE  task[r].key \in Keys
  BY <1>4 DEF TrustTypes
<1>5. CASE Tick
  <2>1. /\ clock' = clock + 1 /\ UNCHANGED <<bans, violations>>
        /\ offences' = [k \in Keys |-> Within(offences[k], BanWindow, clock')]
    BY <1>5 DEF Tick, BansAge
  <2>2. ASSUME NEW k \in Keys
        PROVE  /\ Agree(violations'[k], offences'[k], clock')
               /\ offences'[k] \in Seq(Nat)
               /\ Len(offences'[k]) <= Len(offences[k])
    <3>1. clock' \in Nat /\ clock <= clock'
      BY <1>0, <2>1
    <3>2. /\ Agree(violations[k], Within(offences[k], BanWindow, clock'), clock')
          /\ Len(Within(offences[k], BanWindow, clock')) <= Len(offences[k])
      BY <1>0, <3>1, AgeingAgrees DEF HistoriesAgree
    <3>3. QED
      BY <2>1, <3>2 DEF Agree
  <2>3. HistoriesAgree'
    <3>1. offences' \in [Keys -> Seq(Nat)]
      <4>1. \A k \in Keys : offences'[k] = Within(offences[k], BanWindow, clock')
        BY <2>1
      <4>2. QED
        BY <2>1, <2>2, <4>1
    <3>2. QED
      BY <2>2, <3>1 DEF HistoriesAgree
  <2>4. ASSUME NEW k \in Keys
        PROVE  Earned(k) /\ BannedIfDue(k)
    <3>1. Earned(k)
      BY <2>1 DEF Earned
    <3>2. Len(offences[k]) \in Nat /\ Len(offences'[k]) \in Nat
      BY <2>2, TimesAreNumbers DEF HistoriesAgree
    <3>3. ~EnoughOffences(k)
      BY <2>2, <3>2 DEF EnoughOffences, Offends
    <3>4. QED
      BY <3>1, <3>3 DEF BannedIfDue
  <2>5. QED
    BY <2>3, <2>4
<1>6. CASE Administer
  <2>1. clock' = clock
    BY <1>6 DEF Administer
  <2>2. CASE GetActiveBans
    BY <2>1, <2>2, TidyingIsFair DEF GetActiveBans
  <2>3. CASE \E k \in Keys : ClearBan(k)
    <3>1. PICK k \in Keys : ClearBan(k)
      BY <2>3
    <3>2. /\ UNCHANGED <<violations, offences>>
          /\ \A j \in Keys : bans'[j] \in {bans[j], None}
      BY <3>1 DEF ClearBan, BanInv, BanTypes
    <3>3. HistoriesAgree'
      BY <2>1, <3>2 DEF HistoriesAgree
    <3>4. QED
      BY <3>2, <3>3, NobodyOffends
  <2>4. CASE ClearAll
    <3>1. /\ \A j \in Keys : bans'[j] = None
          /\ \A j \in Keys : violations'[j] = << >> /\ offences'[j] = << >>
          /\ offences' = [j \in Keys |-> << >>]
      BY <2>4 DEF ClearAll
    <3>2. << >> \in Seq(Nat)
      BY EmptySeq
    <3>3. HistoriesAgree'
      BY <1>0, <2>1, <3>1, <3>2, NothingAgrees DEF HistoriesAgree
    <3>4. QED
      BY <3>1, <3>3, NobodyOffends
  <2>5. CASE UNCHANGED banVars
    BY <1>3, <2>1, <2>5
  <2>6. QED
    BY <1>6, <2>2, <2>3, <2>4, <2>5 DEF Administer
<1>7. ASSUME NEW k \in Keys, HitHoneypot(k)
      PROVE  Goal
  BY <1>1, <1>7 DEF HitHoneypot
<1>8. ASSUME NEW k \in Keys, TurnAway(k)
      PROVE  Goal
  BY <1>2, <1>8 DEF TurnAway
<1>9. ASSUME NEW r \in Requests, NEW k \in Keys, Admit(r, k)
      PROVE  Goal
  BY <1>2, <1>9 DEF Admit
<1>10. ASSUME NEW r \in Requests,
              Grant(r) \/ NextRule(r) \/ Succeed(r) \/ End(r)
       PROVE  Goal
  BY <1>3, <1>10 DEF Grant, NextRule, Succeed, End
<1>11. ASSUME NEW r \in Requests,
              Deny(r) \/ DenyInShadow(r) \/ FailChallenge(r)
       PROVE  Goal
  <2>1. task[r] # None
    BY <1>11 DEF Deny, DenyInShadow, FailChallenge, Awaits
  <2>2. RecordViolation(task[r].key) /\ clock' = clock
    BY <1>11 DEF Deny, DenyInShadow, FailChallenge, ReportViolation
  <2>3. QED
    BY <1>1, <1>4, <2>1, <2>2
<1>12. CASE UNCHANGED vars
  BY <1>3, <1>12 DEF vars
<1>13. QED
  BY <1>5, <1>6, <1>7, <1>8, <1>9, <1>10, <1>11, <1>12 DEF Next, Serve

-----------------------------------------------------------------------------
(* The trust cache *)

Entries(s) == {s[i] : i \in DOMAIN s}

Distinct(s) == \A i, j \in 1..Len(s) : s[i] = s[j] => i = j

Evictable(s) == {k \in Cached(s) : s[k].level # "banned"}

\* EvictionWorks, and that the cache is finite, for what its size bounds.
CacheInv ==
  /\ TrustTypeOK
  /\ Distinct(recency)
  /\ Entries(recency) \subseteq Cached(states)
  /\ Evictable(states) \subseteq Entries(recency)
  /\ IsFiniteSet(Cached(states))
  /\ Cardinality(Evictable(states)) <= MaxFingerprints

LEMMA EntriesAreKeys ==
  ASSUME NEW s \in Seq(Keys)
  PROVE  /\ Len(s) \in Nat /\ DOMAIN s = 1..Len(s)
         /\ \A i \in 1..Len(s) : s[i] \in Keys
         /\ Entries(s) \subseteq Keys
<1>1. Len(s) \in Nat /\ DOMAIN s = 1..Len(s) /\ \A i \in 1..Len(s) : s[i] \in Keys
  BY LenProperties, ElementOfSeq
<1>2. QED
  BY <1>1 DEF Entries

(***************************************************************************)
(* Taking a key out takes it out for good, and nothing else.               *)
(***************************************************************************)
LEMMA WithoutTakesOut ==
  ASSUME NEW s \in Seq(Keys), Distinct(s), NEW k
  PROVE  /\ Without(s, k) \in Seq(Keys)
         /\ Distinct(Without(s, k))
         /\ Entries(Without(s, k)) = Entries(s) \ {k}
<1>0. /\ Len(s) \in Nat /\ DOMAIN s = 1..Len(s)
      /\ \A i \in 1..Len(s) : s[i] \in Keys
  BY EntriesAreKeys
<1>1. CASE ~\E i \in DOMAIN s : s[i] = k
  BY <1>1 DEF Without, Entries
<1>2. CASE \E i \in DOMAIN s : s[i] = k
  <2> DEFINE at == CHOOSE i \in DOMAIN s : s[i] = k
             front == SubSeq(s, 1, at - 1)
             back == SubSeq(s, at + 1, Len(s))
             w == front \o back
  <2>1. at \in 1..Len(s) /\ s[at] = k
    BY <1>0, <1>2
  <2>2. Without(s, k) = w
    BY <1>2 DEF Without
  <2> HIDE DEF at
  <2>3. /\ front \in Seq(Keys) /\ Len(front) = at - 1
        /\ \A i \in 1..(at - 1) : front[i] = s[i]
    <3>1. 1 \in Int /\ at - 1 \in Int /\ \A i \in 1..(at - 1) : s[i] \in Keys
      BY <1>0, <2>1
    <3>2. /\ front \in Seq(Keys)
          /\ Len(front) = IF 1 <= at - 1 THEN (at - 1) - 1 + 1 ELSE 0
          /\ \A i \in 1..((at - 1) - 1 + 1) : front[i] = s[1 + i - 1]
      BY <3>1, SubSeqProperties
    <3> HIDE DEF front
    <3>3. QED
      BY <2>1, <3>2
  <2>4. /\ back \in Seq(Keys) /\ Len(back) = Len(s) - at
        /\ \A i \in 1..(Len(s) - at) : back[i] = s[at + i]
    <3>1. at + 1 \in Int /\ Len(s) \in Int /\ \A i \in (at + 1)..Len(s) : s[i] \in Keys
      BY <1>0, <2>1
    <3>2. /\ back \in Seq(Keys)
          /\ Len(back) = IF at + 1 <= Len(s) THEN Len(s) - (at + 1) + 1 ELSE 0
          /\ \A i \in 1..(Len(s) - (at + 1) + 1) : back[i] = s[(at + 1) + i - 1]
      BY <3>1, SubSeqProperties
    <3> HIDE DEF back
    <3>3. \A i \in 1..(Len(s) - at) :
            i \in 1..(Len(s) - (at + 1) + 1) /\ (at + 1) + i - 1 = at + i
      BY <1>0, <2>1
    <3>4. Len(back) = Len(s) - at
      <4>1. Len(back) = IF at + 1 <= Len(s) THEN Len(s) - (at + 1) + 1 ELSE 0
        BY <3>2
      <4>2. at \in Nat /\ Len(s) \in Nat /\ at <= Len(s)
        BY <1>0, <2>1
      <4>3. QED
        BY <4>1, <4>2
    <3>5. ASSUME NEW i \in 1..(Len(s) - at)
          PROVE  back[i] = s[at + i]
      BY <3>2, <3>3
    <3>6. QED
      BY <3>2, <3>4, <3>5
  <2> HIDE DEF front, back
  <2>5. /\ w \in Seq(Keys) /\ Len(w) = Len(front) + Len(back)
        /\ \A i \in 1..(Len(front) + Len(back)) :
             w[i] = IF i <= Len(front) THEN front[i] ELSE back[i - Len(front)]
    BY <2>3, <2>4, ConcatProperties
  <2> HIDE DEF w
  <2>6. Len(w) = Len(s) - 1 /\ DOMAIN w = 1..(Len(s) - 1)
    <3>1. Len(w) = Len(s) - 1
      BY <1>0, <2>1, <2>3, <2>4, <2>5
    <3>2. QED
      BY <2>5, <3>1, LenProperties
  <2>7. ASSUME NEW i \in 1..Len(w)
        PROVE  w[i] = s[IF i < at THEN i ELSE i + 1]
    <3>1. CASE i < at
      <4>1. i \in 1..(at - 1) /\ i <= Len(front) /\ i \in 1..(Len(front) + Len(back))
        BY <1>0, <2>1, <2>3, <2>4, <2>6, <3>1
      <4>2. QED
        BY <2>3, <2>5, <3>1, <4>1
    <3>2. CASE ~(i < at)
      <4>1. /\ ~(i <= Len(front)) /\ i \in 1..(Len(front) + Len(back))
            /\ i - Len(front) \in 1..(Len(s) - at)
            /\ at + (i - Len(front)) = i + 1
        BY <1>0, <2>1, <2>3, <2>4, <2>6, <3>2
      <4>2. w[i] = back[i - Len(front)] /\ back[i - Len(front)] = s[at + (i - Len(front))]
        BY <2>4, <2>5, <4>1
      <4>3. QED
        BY <3>2, <4>1, <4>2
    <3>3. QED
      BY <3>1, <3>2
  <2>8. Distinct(w)
    <3> SUFFICES ASSUME NEW i \in 1..Len(w), NEW j \in 1..Len(w), w[i] = w[j]
                 PROVE  i = j
      BY DEF Distinct
    <3>1. /\ (IF i < at THEN i ELSE i + 1) \in 1..Len(s)
          /\ (IF j < at THEN j ELSE j + 1) \in 1..Len(s)
      BY <1>0, <2>1, <2>6
    <3>2. (IF i < at THEN i ELSE i + 1) = (IF j < at THEN j ELSE j + 1)
      BY <2>7, <3>1 DEF Distinct
    <3>3. QED
      BY <2>1, <2>6, <3>2
  <2>9. Entries(w) \subseteq Entries(s) \ {k}
    <3> SUFFICES ASSUME NEW i \in 1..Len(w)
                 PROVE  w[i] \in Entries(s) /\ w[i] # k
      BY <2>6 DEF Entries
    <3> DEFINE m == IF i < at THEN i ELSE i + 1
    <3>1. m \in 1..Len(s) /\ m # at
      BY <1>0, <2>1, <2>6
    <3>2. w[i] = s[m]
      BY <2>7
    <3> HIDE DEF m
    <3>3. s[m] # s[at]
      BY <2>1, <3>1 DEF Distinct
    <3>4. QED
      BY <1>0, <2>1, <3>1, <3>2, <3>3 DEF Entries
  <2>10. Entries(s) \ {k} \subseteq Entries(w)
    <3> SUFFICES ASSUME NEW m \in 1..Len(s), s[m] # k
                 PROVE  s[m] \in Entries(w)
      BY <1>0 DEF Entries
    <3> DEFINE i == IF m < at THEN m ELSE m - 1
    <3>1. m # at
      BY <2>1
    <3>2. i \in 1..Len(w) /\ m = (IF i < at THEN i ELSE i + 1)
      BY <1>0, <2>1, <2>6, <3>1
    <3>3. w[i] = s[m]
      BY <2>7, <3>2
    <3> HIDE DEF i
    <3>4. QED
      BY <2>6, <3>2, <3>3 DEF Entries
  <2>11. QED
    BY <2>2, <2>5, <2>8, <2>9, <2>10
<1>3. QED
  BY <1>1, <1>2

LEMMA AppendingDistinct ==
  ASSUME NEW s \in Seq(Keys), Distinct(s), NEW k \in Keys, k \notin Entries(s)
  PROVE  /\ Append(s, k) \in Seq(Keys)
         /\ Distinct(Append(s, k))
         /\ Entries(Append(s, k)) = Entries(s) \union {k}
<1>1. /\ Len(s) \in Nat /\ DOMAIN s = 1..Len(s)
      /\ \A i \in 1..Len(s) : s[i] # k
  BY EntriesAreKeys DEF Entries
<1> DEFINE w == Append(s, k)
<1>2. /\ w \in Seq(Keys) /\ Len(w) = Len(s) + 1
      /\ \A i \in 1..Len(s) : w[i] = s[i]
      /\ w[Len(s) + 1] = k
  BY AppendProperties
<1>3. DOMAIN w = 1..(Len(s) + 1)
  BY <1>2, LenProperties
<1> HIDE DEF w
<1>4. Distinct(w)
  <2> SUFFICES ASSUME NEW i \in 1..(Len(s) + 1), NEW j \in 1..(Len(s) + 1), w[i] = w[j]
               PROVE  i = j
    BY <1>2 DEF Distinct
  <2>1. CASE i \in 1..Len(s) /\ j \in 1..Len(s)
    BY <1>2, <2>1 DEF Distinct
  <2>2. CASE i = Len(s) + 1 /\ j \in 1..Len(s)
    BY <1>1, <1>2, <2>2
  <2>3. CASE j = Len(s) + 1 /\ i \in 1..Len(s)
    BY <1>1, <1>2, <2>3
  <2>4. CASE i = Len(s) + 1 /\ j = Len(s) + 1
    BY <2>4
  <2>5. QED
    BY <1>1, <2>1, <2>2, <2>3, <2>4
<1>5. Entries(w) = Entries(s) \union {k}
  <2>1. 1..(Len(s) + 1) = (1..Len(s)) \union {Len(s) + 1}
    BY <1>1
  <2>2. QED
    BY <1>1, <1>2, <1>3, <2>1 DEF Entries
<1>6. QED
  BY <1>2, <1>4, <1>5 DEF w

LEMMA PoppingDistinct ==
  ASSUME NEW s \in Seq(Keys), Distinct(s), NEW n \in 0..Len(s)
  PROVE  LET w == SubSeq(s, n + 1, Len(s)) IN
         /\ w \in Seq(Keys)
         /\ Distinct(w)
         /\ Entries(w) = Entries(s) \ {s[i] : i \in 1..n}
<1> DEFINE w == SubSeq(s, n + 1, Len(s))
<1>1. /\ Len(s) \in Nat /\ DOMAIN s = 1..Len(s)
      /\ \A i \in 1..Len(s) : s[i] \in Keys
  BY EntriesAreKeys
<1>2. /\ w \in Seq(Keys)
      /\ Len(w) = IF n + 1 <= Len(s) THEN Len(s) - (n + 1) + 1 ELSE 0
      /\ \A i \in 1..(Len(s) - (n + 1) + 1) : w[i] = s[(n + 1) + i - 1]
  <2>1. n + 1 \in Int /\ Len(s) \in Int /\ \A i \in (n + 1)..Len(s) : s[i] \in Keys
    BY <1>1
  <2>2. QED
    BY <2>1, SubSeqProperties
<1> HIDE DEF w
<1>3. Len(w) = Len(s) - n /\ DOMAIN w = 1..(Len(s) - n)
  <2>1. Len(w) = Len(s) - n
    <3>1. Len(w) = IF n + 1 <= Len(s) THEN Len(s) - (n + 1) + 1 ELSE 0
      BY <1>2
    <3>2. n \in Nat /\ Len(s) \in Nat /\ n <= Len(s)
      BY <1>1
    <3>3. QED
      BY <3>1, <3>2
  <2>2. QED
    BY <1>2, <2>1, LenProperties
<1>4. ASSUME NEW i \in 1..(Len(s) - n)
      PROVE  w[i] = s[n + i]
  <2>1. i \in 1..(Len(s) - (n + 1) + 1) /\ (n + 1) + i - 1 = n + i
    BY <1>1
  <2>2. QED
    BY <1>2, <2>1
<1>5. Distinct(w)
  <2> SUFFICES ASSUME NEW i \in 1..(Len(s) - n), NEW j \in 1..(Len(s) - n), w[i] = w[j]
               PROVE  i = j
    BY <1>3 DEF Distinct
  <2>1. n + i \in 1..Len(s) /\ n + j \in 1..Len(s)
    BY <1>1
  <2>2. n + i = n + j
    BY <1>4, <2>1 DEF Distinct
  <2>3. QED
    BY <2>2
<1>6. Entries(w) \subseteq Entries(s) \ {s[i] : i \in 1..n}
  <2> SUFFICES ASSUME NEW i \in 1..(Len(s) - n)
               PROVE  w[i] \in Entries(s) /\ \A j \in 1..n : w[i] # s[j]
    BY <1>3 DEF Entries
  <2>1. n + i \in 1..Len(s) /\ w[i] = s[n + i]
    BY <1>1, <1>4
  <2>2. ASSUME NEW j \in 1..n
        PROVE  s[n + i] # s[j]
    <3>1. j \in 1..Len(s) /\ n + i # j
      BY <1>1
    <3>2. QED
      BY <2>1, <3>1 DEF Distinct
  <2>3. QED
    BY <1>1, <2>1, <2>2 DEF Entries
<1>7. Entries(s) \ {s[i] : i \in 1..n} \subseteq Entries(w)
  <2> SUFFICES ASSUME NEW m \in 1..Len(s), s[m] \notin {s[i] : i \in 1..n}
               PROVE  s[m] \in Entries(w)
    BY <1>1 DEF Entries
  <2>1. ~(m <= n)
    BY <1>1
  <2>2. m - n \in 1..(Len(s) - n) /\ n + (m - n) = m
    BY <1>1, <2>1
  <2>3. w[m - n] = s[m]
    BY <1>4, <2>2
  <2>4. QED
    BY <1>3, <2>2, <2>3 DEF Entries
<1>8. QED
  BY <1>2, <1>5, <1>6, <1>7 DEF w

(***************************************************************************)
(* A list whose entries differ has as many as it is long.                  *)
(***************************************************************************)
LEMMA DistinctCount ==
  ASSUME NEW s \in Seq(Keys), Distinct(s)
  PROVE  IsFiniteSet(Entries(s)) /\ Cardinality(Entries(s)) = Len(s)
<1>1. /\ Len(s) \in Nat /\ DOMAIN s = 1..Len(s) /\ s \in [1..Len(s) -> Keys]
  BY LenProperties
<1>2. IsFiniteSet(1..Len(s)) /\ Cardinality(1..Len(s)) = Len(s)
  BY <1>1, SegmentSize
<1>3. s \in Bijection(1..Len(s), Entries(s))
  <2>1. s \in [1..Len(s) -> Entries(s)]
    BY <1>1 DEF Entries
  <2>2. \A a, b \in 1..Len(s) : s[a] = s[b] => a = b
    BY DEF Distinct
  <2>3. \A t \in Entries(s) : \E i \in 1..Len(s) : s[i] = t
    BY <1>1 DEF Entries
  <2>4. QED
    BY <2>1, <2>2, <2>3 DEF Bijection, Injection, Surjection, IsInjective
<1>4. ExistsBijection(1..Len(s), Entries(s))
  BY <1>3 DEF ExistsBijection
<1>5. QED
  BY <1>2, <1>4, FS_Bijection

(***************************************************************************)
(* _evict_if_needed stops: when what is left fits, or with nothing left.   *)
(***************************************************************************)
LEMMA EvictionsStop ==
  ASSUME NEW s, NEW order \in Seq(Keys)
  PROVE  /\ Evictions(s, order) \in 0..Len(order)
         /\ \/ Evictions(s, order) = Len(order)
            \/ Cardinality(Cached(s) \ {order[i] : i \in 1..Evictions(s, order)})
                 <= MaxFingerprints
<1> DEFINE Fits(m) ==
             Cardinality(Cached(s) \ {order[i] : i \in 1..m}) <= MaxFingerprints
           Stops == {m \in 0..Len(order) : Fits(m) \/ m = Len(order)}
<1>1. Len(order) \in Nat
  BY EntriesAreKeys
<1>2. Len(order) \in Stops /\ Stops \subseteq Nat
  BY <1>1
<1>3. PICK n \in Stops : \A m \in Stops : ~(<<m, n>> \in OpToRel(<, Nat))
  <2> HIDE DEF Stops
  <2>1. QED
    BY <1>2, NatLessThanWellFounded, WFMin
<1>4. n \in 0..Len(order) /\ (Fits(n) \/ n = Len(order))
  OBVIOUS
<1>5. ASSUME NEW m \in 0..(n - 1), Fits(m)
      PROVE  FALSE
  <2>1. m \in Stops /\ m < n /\ m \in Nat /\ n \in Nat
    BY <1>1, <1>4, <1>5
  <2>2. <<m, n>> \in OpToRel(<, Nat)
    BY <2>1 DEF OpToRel
  <2>3. QED
    BY <1>3, <2>1, <2>2
<1>6. \E x \in 0..Len(order) :
        /\ Fits(x) \/ x = Len(order)
        /\ \A m \in 0..(x - 1) : ~Fits(m)
  <2> HIDE DEF Fits, Stops
  <2>1. QED
    BY <1>4, <1>5
<1>7. Evictions(s, order) =
        CHOOSE x \in 0..Len(order) :
          /\ Fits(x) \/ x = Len(order)
          /\ \A m \in 0..(x - 1) : ~Fits(m)
  BY DEF Evictions
<1>8. /\ Evictions(s, order) \in 0..Len(order)
      /\ Fits(Evictions(s, order)) \/ Evictions(s, order) = Len(order)
  <2> HIDE DEF Fits
  <2>1. QED
    BY <1>6, <1>7
<1>9. QED
  BY <1>8

(***************************************************************************)
(* A smaller cache is no problem.                                          *)
(***************************************************************************)
LEMMA SmallerCache ==
  ASSUME CacheInv, NEW S \in SUBSET Cached(states), NEW T \in SUBSET Evictable(states)
  PROVE  IsFiniteSet(S) /\ Cardinality(T) <= MaxFingerprints
<1>1. IsFiniteSet(Cached(states)) /\ Cardinality(Evictable(states)) <= MaxFingerprints
  BY DEF CacheInv
<1>2. IsFiniteSet(S)
  BY <1>1, FS_Subset
<1>3. IsFiniteSet(Evictable(states))
  BY <1>1, FS_Subset DEF Evictable
<1>4. Cardinality(T) <= Cardinality(Evictable(states)) /\ Cardinality(T) \in Nat
      /\ Cardinality(Evictable(states)) \in Nat
  BY <1>3, FS_Subset, FS_CardinalityType
<1>5. QED
  BY <1>1, <1>2, <1>4, TrustAssumption

LEMMA DropKeepsCache ==
  ASSUME CacheInv, NEW k \in Keys, Drop(k)
  PROVE  CacheInv'
<1>0. /\ states \in [Keys -> Verdicts \union {None}] /\ recency \in Seq(Keys)
      /\ Distinct(recency) /\ Entries(recency) \subseteq Cached(states)
      /\ Evictable(states) \subseteq Entries(recency)
  BY DEF CacheInv, TrustTypeOK
<1>1. /\ states' = [states EXCEPT ![k] = None]
      /\ recency' = Without(recency, k)
  BY DEF Drop
<1>2. /\ recency' \in Seq(Keys) /\ Distinct(recency')
      /\ Entries(recency') = Entries(recency) \ {k}
  BY <1>0, <1>1, WithoutTakesOut
<1>3. Cached(states') = Cached(states) \ {k} /\ Evictable(states') = Evictable(states) \ {k}
  BY <1>0, <1>1 DEF Cached, Evictable
<1>4. IsFiniteSet(Cached(states')) /\ Cardinality(Evictable(states')) <= MaxFingerprints
  BY <1>3, SmallerCache
<1>5. TrustTypeOK'
  BY <1>0, <1>1, <1>2 DEF TrustTypeOK
<1>6. QED
  BY <1>0, <1>2, <1>3, <1>4, <1>5 DEF CacheInv

LEMMA TouchedIsDistinct ==
  ASSUME CacheInv, NEW k \in Keys
  PROVE  /\ Touched(k) \in Seq(Keys) /\ Distinct(Touched(k))
         /\ Entries(Touched(k)) = Entries(recency) \union {k}
<1>1. /\ Without(recency, k) \in Seq(Keys) /\ Distinct(Without(recency, k))
      /\ Entries(Without(recency, k)) = Entries(recency) \ {k}
  BY WithoutTakesOut DEF CacheInv, TrustTypeOK
<1>2. QED
  BY <1>1, AppendingDistinct DEF Touched

LEMMA LookingKeepsCache ==
  ASSUME CacheInv, NEW k \in Keys, CheckTrust(k) \/ LookUpState(k)
  PROVE  CacheInv'
<1>1. CASE Drop(k)
  BY <1>1, DropKeepsCache
<1>2. CASE UNCHANGED trustVars
  BY <1>2 DEF trustVars, CacheInv, TrustTypeOK
<1>3. CASE states[k] # None /\ recency' = Touched(k) /\ UNCHANGED states
  <2>1. k \in Cached(states)
    BY <1>3 DEF Cached
  <2>2. /\ recency' \in Seq(Keys) /\ Distinct(recency')
        /\ Entries(recency') = Entries(recency) \union {k}
    BY <1>3, TouchedIsDistinct
  <2>3. QED
    BY <1>3, <2>1, <2>2 DEF CacheInv, TrustTypeOK
<1>4. QED
  BY <1>1, <1>2, <1>3 DEF CheckTrust, LookUpState

(***************************************************************************)
(* A new belief pushes out as many others as it takes.                    *)
(***************************************************************************)
LEMMA UpdateKeepsCache ==
  ASSUME CacheInv, clock \in Nat, NEW k \in Keys, UpdateTrusted(k)
  PROVE  CacheInv'
<1> DEFINE belief == [level |-> "trusted", expires |-> Deadline(TrustedTTL)]
           s == [states EXCEPT ![k] = belief]
           order == Touched(k)
           n == Evictions(s, order)
           evicted == {order[i] : i \in 1..n}
<1>0. /\ states \in [Keys -> Verdicts \union {None}] /\ recency \in Seq(Keys)
      /\ Entries(recency) \subseteq Cached(states)
      /\ Evictable(states) \subseteq Entries(recency)
      /\ IsFiniteSet(Cached(states))
  BY DEF CacheInv, TrustTypeOK
<1>1. /\ states' = [j \in Keys |-> IF j \in evicted THEN None ELSE s[j]]
      /\ recency' = SubSeq(order, n + 1, Len(order))
  BY DEF UpdateTrusted
<1>2. belief \in Verdicts /\ belief # None /\ belief.level # "banned"
  BY TrustAssumption DEF Verdicts, Deadline
<1> HIDE DEF belief
<1>3. /\ s \in [Keys -> Verdicts \union {None}]
      /\ Cached(s) = Cached(states) \union {k}
      /\ Evictable(s) = Evictable(states) \union {k}
  BY <1>0, <1>2 DEF Cached, Evictable
<1> HIDE DEF s
<1>4. /\ order \in Seq(Keys) /\ Distinct(order)
      /\ Entries(order) = Entries(recency) \union {k}
  BY TouchedIsDistinct
<1> HIDE DEF order
<1>5. /\ n \in 0..Len(order)
      /\ n = Len(order) \/ Cardinality(Cached(s) \ evicted) <= MaxFingerprints
  BY <1>4, EvictionsStop
<1> HIDE DEF n
<1>6. /\ recency' \in Seq(Keys) /\ Distinct(recency')
      /\ Entries(recency') = Entries(order) \ evicted
  BY <1>1, <1>4, <1>5, PoppingDistinct
<1> HIDE DEF evicted
<1>7. /\ Cached(states') = Cached(s) \ evicted
      /\ Evictable(states') = Evictable(s) \ evicted
      /\ states' \in [Keys -> Verdicts \union {None}]
  BY <1>1, <1>3 DEF Cached, Evictable
<1>8. /\ Entries(recency') \subseteq Cached(states')
      /\ Evictable(states') \subseteq Entries(recency')
  BY <1>0, <1>3, <1>4, <1>6, <1>7
<1>9. IsFiniteSet(Cached(states'))
  <2>1. IsFiniteSet(Cached(s))
    BY <1>0, <1>3, FS_AddElement
  <2>2. QED
    BY <1>7, <2>1, FS_Subset
<1>10. Cardinality(Evictable(states')) <= MaxFingerprints
  <2>1. CASE n = Len(order)
    <3>1. DOMAIN order = 1..n
      BY <1>4, <2>1, EntriesAreKeys
    <3>2. Entries(order) = evicted
      BY <3>1 DEF Entries, evicted
    <3>3. Evictable(states') = {}
      BY <1>6, <1>8, <3>2
    <3>4. QED
      BY <3>3, FS_EmptySet, TrustAssumption
  <2>2. CASE Cardinality(Cached(s) \ evicted) <= MaxFingerprints
    <3>1. Evictable(states') \in SUBSET Cached(states')
      BY DEF Evictable
    <3>2. /\ Cardinality(Evictable(states')) \in Nat
          /\ Cardinality(Cached(states')) \in Nat
          /\ Cardinality(Evictable(states')) <= Cardinality(Cached(states'))
      BY <1>9, <3>1, FS_Subset, FS_CardinalityType
    <3>3. QED
      BY <1>7, <2>2, <3>2, TrustAssumption
  <2>3. QED
    BY <1>5, <2>1, <2>2
<1>11. TrustTypeOK'
  BY <1>6, <1>7 DEF TrustTypeOK
<1>12. QED
  BY <1>6, <1>8, <1>9, <1>10, <1>11 DEF CacheInv

LEMMA BanTrustKeepsCache ==
  ASSUME CacheInv, NEW k \in Keys, BanTrust(k)
  PROVE  CacheInv'
<1> DEFINE belief == [level |-> "banned", expires |-> Forever]
<1>0. /\ states \in [Keys -> Verdicts \union {None}]
      /\ Entries(recency) \subseteq Cached(states)
      /\ Evictable(states) \subseteq Entries(recency)
      /\ IsFiniteSet(Cached(states))
  BY DEF CacheInv, TrustTypeOK
<1>1. states' = [states EXCEPT ![k] = belief] /\ recency' = recency
  BY DEF BanTrust
<1>2. belief \in Verdicts /\ belief # None /\ belief.level = "banned"
  BY TrustAssumption DEF Verdicts
<1> HIDE DEF belief
<1>3. /\ Cached(states') = Cached(states) \union {k}
      /\ Evictable(states') \subseteq Evictable(states)
      /\ states' \in [Keys -> Verdicts \union {None}]
  BY <1>0, <1>1, <1>2 DEF Cached, Evictable
<1>4. IsFiniteSet(Cached(states'))
  BY <1>0, <1>3, FS_AddElement
<1>5. Cardinality(Evictable(states')) <= MaxFingerprints
  BY <1>3, SmallerCache
<1>6. QED
  BY <1>0, <1>1, <1>3, <1>4, <1>5 DEF CacheInv, TrustTypeOK

LEMMA EmptyCache ==
  ASSUME states = [k \in Keys |-> None], recency = << >>
  PROVE  CacheInv
<1>1. << >> \in Seq(Keys) /\ Len(<< >>) = 0
  BY EmptySeq
<1>2. DOMAIN recency = {}
  BY <1>1, LenProperties
<1>3. Entries(recency) = {} /\ Distinct(recency)
  BY <1>1, <1>2 DEF Entries, Distinct
<1>4. Cached(states) = {} /\ Evictable(states) = {}
  BY DEF Cached, Evictable
<1>5. TrustTypeOK
  BY <1>1 DEF TrustTypeOK
<1>6. IsFiniteSet(Cached(states)) /\ Cardinality(Evictable(states)) <= MaxFingerprints
  <2>1. IsFiniteSet({}) /\ Cardinality({}) = 0
    BY FS_EmptySet
  <2>2. Cardinality(Evictable(states)) = 0
    <3>1. Evictable(states) = {}
      BY <1>4
    <3>2. Cardinality(Evictable(states)) = Cardinality({})
      BY <3>1, Zenon
    <3>3. QED
      BY <2>1, <3>2
  <2>3. 0 <= MaxFingerprints
    BY TrustAssumption
  <2>4. QED
    BY <1>4, <2>1, <2>2, <2>3
<1>7. QED
  BY <1>3, <1>4, <1>5, <1>6 DEF CacheInv

LEMMA InitCache == Init => CacheInv
BY EmptyCache DEF Init, TrustInit

(***************************************************************************)
(* Whatever happens, the cache keeps to its capacity.                      *)
(***************************************************************************)
LEMMA CacheStep ==
  ASSUME CacheInv, clock \in Nat, TrustTypes, [Next]_vars
  PROVE  CacheInv'
<1>1. ASSUME UNCHANGED trustVars PROVE CacheInv'
  BY <1>1 DEF trustVars, CacheInv, TrustTypeOK
<1>2. ASSUME NEW r \in Requests, task[r] # None
      PROVE  task[r].key \in Keys
  BY <1>2 DEF TrustTypes
<1>3. CASE Administer
  <2>1. CASE UNCHANGED trustVars
    BY <1>1, <2>1
  <2>2. CASE \E k \in Keys : LookUpState(k)
    BY <2>2, LookingKeepsCache
  <2>3. CASE \E k \in Keys : BanTrust(k)
    BY <2>3, BanTrustKeepsCache
  <2>4. CASE ClearTrust
    <3>1. (states = [k \in Keys |-> None] /\ recency = << >>)'
      BY <2>4 DEF ClearTrust
    <3>2. (states = [k \in Keys |-> None] /\ recency = << >> => CacheInv)'
      BY EmptyCache, PTL
    <3>3. QED
      BY <3>1, <3>2
  <2>5. QED
    BY <1>3, <2>1, <2>2, <2>3, <2>4 DEF Administer
<1>4. ASSUME NEW r \in Requests, NEW k \in Keys, Admit(r, k)
      PROVE  CacheInv'
  BY <1>4, LookingKeepsCache DEF Admit
<1>5. ASSUME NEW r \in Requests, NextRule(r)
      PROVE  CacheInv'
  BY <1>2, <1>5, LookingKeepsCache DEF NextRule, Awaits
<1>6. ASSUME NEW r \in Requests, Deny(r) \/ DenyInShadow(r) \/ FailChallenge(r)
      PROVE  CacheInv'
  <2>1. task[r].key \in Keys /\ Drop(task[r].key)
    BY <1>2, <1>6 DEF Deny, DenyInShadow, FailChallenge, Awaits, ReportViolation, Poison
  <2>2. QED
    BY <2>1, DropKeepsCache
<1>7. ASSUME NEW r \in Requests, Succeed(r)
      PROVE  CacheInv'
  <2>1. task[r].key \in Keys
    BY <1>2, <1>7 DEF Succeed, Awaits
  <2>2. CASE UpdateTrusted(task[r].key)
    BY <2>1, <2>2, UpdateKeepsCache
  <2>3. CASE UNCHANGED trustVars
    BY <1>1, <2>3
  <2>4. QED
    BY <1>7, <2>2, <2>3 DEF Succeed, CountSuccess
<1>8. CASE UNCHANGED vars
  BY <1>1, <1>8 DEF vars
<1>9. CASE \/ Tick
           \/ \E k \in Keys : HitHoneypot(k) \/ TurnAway(k)
           \/ \E r \in Requests : Grant(r) \/ End(r)
  BY <1>1, <1>9 DEF Tick, HitHoneypot, TurnAway, Grant, End
<1>10. QED
  BY <1>3, <1>4, <1>5, <1>6, <1>7, <1>8, <1>9 DEF Next, Serve

(***************************************************************************)
(* EvictionWorks, of a cache with the invariant.                           *)
(***************************************************************************)
LEMMA CacheInvIsEnough == CacheInv => EvictionWorks
<1> SUFFICES ASSUME CacheInv PROVE EvictionWorks
  OBVIOUS
<1>1. Cardinality(Entries(recency)) = Len(recency)
  BY DistinctCount DEF CacheInv, TrustTypeOK
<1>2. QED
  BY <1>1 DEF CacheInv, EvictionWorks, Evictable, Entries

-----------------------------------------------------------------------------

IInv == BanInv /\ TrustInv /\ HistoriesAgree /\ CacheInv

(***************************************************************************)
(* The invariants hold in every reachable state.                           *)
(***************************************************************************)
THEOREM InvariantHolds == Spec => []IInv
<1>1. Init => IInv
  BY InitBans, InitTrust, InitHistories, InitCache DEF IInv
<1>2. IInv /\ [Next]_vars => IInv'
  BY BansStep, TrustStep, HistoriesStep, CacheStep DEF IInv, TrustInv, BanInv, BanTypes
<1>3. QED
  BY <1>1, <1>2, PTL DEF Spec

(***************************************************************************)
(* Nobody counts as trusted without a whole number of successes since the  *)
(* pipeline last heard of a violation, however requests overlap.           *)
(***************************************************************************)
THEOREM TrustIsAlwaysEarned == Spec => []TrustIsEarned
<1>1. IInv => TrustIsEarned
  BY EarnedVerdictsAreEarnedTrust DEF IInv
<1>2. QED
  BY <1>1, InvariantHolds, PTL

(***************************************************************************)
(* The trust cache keeps to its capacity, permanent bans aside, and its    *)
(* access order to what is cached.                                         *)
(***************************************************************************)
THEOREM EvictionAlwaysWorks == Spec => []EvictionWorks
<1>1. IInv => EvictionWorks
  BY CacheInvIsEnough DEF IInv
<1>2. QED
  BY <1>1, InvariantHolds, PTL

(***************************************************************************)
(* Nothing that requests do lowers, shortens or lifts a ban in force.      *)
(***************************************************************************)
THEOREM BansAreAlwaysKept == Spec => BanIsKept
<1>1. IInv /\ [Next]_vars =>
        [\A k \in Keys : InForce(k) =>
           \/ /\ bans'[k] # None
              /\ bans'[k].level >= bans[k].level
              /\ NoSooner(bans'[k].expires, bans[k].expires)
           \/ k \in pardoned']_vars
  BY BansStep DEF IInv, TrustInv, KeptOrCleared, StillBanned
<1>2. QED
  BY <1>1, InvariantHolds, PTL DEF Spec, BanIsKept

(***************************************************************************)
(* Whoever is banned has had the violations that the level asks for within *)
(* one window.                                                             *)
(***************************************************************************)
THEOREM BansAreAlwaysEarned == Spec => BansAreEarned
<1>1. IInv /\ [Next]_vars =>
        [\A k \in Keys :
           bans'[k] # bans[k] /\ bans'[k] # None
           => Len(offences'[k]) >= Threshold + 2 * (bans'[k].level - 1)]_vars
  BY HistoriesStep DEF IInv, TrustInv, Earned
<1>2. QED
  BY <1>1, InvariantHolds, PTL DEF Spec, BansAreEarned

(***************************************************************************)
(* Whoever has had a threshold's worth of violations within one window is  *)
(* banned, unless what is left of an earlier ban shields the key.          *)
(***************************************************************************)
THEOREM OffendersAreAlwaysBanned == Spec => OffendersAreBanned
<1>1. IInv /\ [Next]_vars =>
        [\A k \in Keys :
           EnoughOffences(k) /\ (bans[k] = None \/ InForce(k)) => InForce(k)']_vars
  BY HistoriesStep DEF IInv, TrustInv, BannedIfDue
<1>2. QED
  BY <1>1, InvariantHolds, PTL DEF Spec, OffendersAreBanned

-----------------------------------------------------------------------------
(***************************************************************************)
(* The challenge manager, for any number of overlapping attempts, clients  *)
(* and tokens.                                                             *)
(*                                                                         *)
(* First, a token counts once unless a provider took too long over it.     *)
(* Whatever happens to bans and counters meanwhile does not matter: all it *)
(* takes is that it leaves the attempts alone (BystanderStep).             *)
(*                                                                         *)
(* Then bans and counters: FlowInv says what the calls in progress know of *)
(* the ban records, and what a counter has to do with the times of what it *)
(* counted.                                                                *)
(***************************************************************************)

Attempts == [key : Keys, token : Tokens, until : Int]

\* p tries a token, and p holds the claim of one.
Attempting(p) == pc[p] \in {"claim", "provider", "release", "failed", "escalate"}

Holding(p) == pc[p] \in {"provider", "release"}

AttemptTypes ==
  /\ DOMAIN pc = Procs
  /\ DOMAIN job = Procs
  /\ \A p \in Procs : Attempting(p) => job[p] \in Attempts

ClaimTypes ==
  /\ clock \in Int
  /\ claims \in [Tokens -> Int \union {None}]
  /\ lastUse \in [Tokens -> Int \union {None}]
  /\ replayed \in [Tokens -> BOOLEAN]
  /\ outlived \in [Tokens -> BOOLEAN]

\* p holds t by a claim that has not run out.
Owns(p, t) == Holding(p) /\ job[p].token = t /\ clock < job[p].until

\* Only one attempt owns a token, by the claim that is stored, and what the
\* token passed before was over when that claim began.
OwnersAreAlone(t) ==
  \A p \in Procs : Owns(p, t) =>
    /\ claims[t] = job[p].until
    /\ lastUse[t] = None \/ lastUse[t] + TokenTTL <= job[p].until
    /\ \A q \in Procs : Owns(q, t) => q = p

\* The claim under which a token passed stays until it runs out.
PassedIsClaimed(t) ==
  lastUse[t] # None /\ clock < lastUse[t] => claims[t] = lastUse[t]

Orderly(t) ==
  /\ replayed[t] => outlived[t]
  /\ ~outlived[t] => OwnersAreAlone(t) /\ PassedIsClaimed(t)

TokensInv == AttemptTypes /\ ClaimTypes /\ \A t \in Tokens : Orderly(t)

\* What the steps of others leave of the attempts.
BystanderStep ==
  /\ AttemptTypes'
  /\ \A p \in Procs : Holding(p)' => Holding(p) /\ job'[p] = job[p]
  /\ UNCHANGED <<clock, claims, lastUse, replayed, outlived>>

-----------------------------------------------------------------------------

(***************************************************************************)
(* Such a step keeps the invariant: there may be fewer owners, never more. *)
(***************************************************************************)
LEMMA Bystander == ASSUME TokensInv, BystanderStep PROVE TokensInv'
<1>1. \A p \in Procs, t \in Tokens : Owns(p, t)' => Owns(p, t) /\ job'[p] = job[p]
  BY DEF BystanderStep, Owns
<1>2. ASSUME NEW t \in Tokens PROVE Orderly(t)'
  BY <1>1, <1>2 DEF BystanderStep, Orderly, OwnersAreAlone, PassedIsClaimed, TokensInv
<1>3. ClaimTypes'
  BY DEF BystanderStep, ClaimTypes, TokensInv
<1>4. QED
  BY <1>2, <1>3 DEF BystanderStep, TokensInv

(***************************************************************************)
(* A call that returns leaves the other attempts alone.                    *)
(***************************************************************************)
LEMMA Returning ==
  ASSUME AttemptTypes, NEW p \in Procs, Done(p)
  PROVE  /\ AttemptTypes'
         /\ ~Attempting(p)'
         /\ \A q \in Procs \ {p} : pc'[q] = pc[q] /\ job'[q] = job[q]
<1>1. DOMAIN pc' = Procs /\ pc'[p] = "idle"
  BY DEF AttemptTypes, Done, Goto
<1>2. DOMAIN job' = Procs
  BY DEF AttemptTypes, Done, Remember
<1>3. \A q \in Procs \ {p} : pc'[q] = pc[q] /\ job'[q] = job[q]
  BY DEF AttemptTypes, Done, Goto, Remember
<1>4. QED
  BY <1>1, <1>2, <1>3 DEF AttemptTypes, Attempting

LEMMA ReturningIsBystanding ==
  ASSUME TokensInv, NEW p \in Procs, Done(p),
         UNCHANGED <<clock, claims, lastUse, replayed, outlived>>
  PROVE  BystanderStep
<1>1. AttemptTypes
  BY DEF TokensInv
<1>2. \A q \in Procs : Holding(q)' => Holding(q) /\ job'[q] = job[q]
  BY <1>1, Returning DEF Holding, Attempting
<1>3. QED
  BY <1>1, <1>2, Returning DEF BystanderStep

(***************************************************************************)
(* The calls of the ban manager go their own ways: none becomes an attempt *)
(* and none touches the job of one.                                        *)
(***************************************************************************)
LEMMA BanCallStep ==
  ASSUME TokensInv, NEW p \in Procs, ~Attempting(p)',
         DOMAIN pc' = Procs, DOMAIN job' = Procs,
         \A q \in Procs \ {p} : pc'[q] = pc[q] /\ (Attempting(q) => job'[q] = job[q]),
         UNCHANGED <<clock, claims, lastUse, replayed, outlived>>
  PROVE  BystanderStep
<1>1. \A q \in Procs : Attempting(q)' => Attempting(q) /\ pc'[q] = pc[q] /\ job'[q] = job[q]
  BY DEF Attempting
<1>2. AttemptTypes'
  BY <1>1 DEF AttemptTypes, TokensInv
<1>3. \A q \in Procs : Holding(q)' => Holding(q) /\ job'[q] = job[q]
  BY <1>1 DEF Holding, Attempting
<1>4. QED
  BY <1>2, <1>3 DEF BystanderStep

(***************************************************************************)
(* A process goes to a step of its own, and the others stay where they are. *)
(***************************************************************************)
LEMMA Jumping ==
  ASSUME TokensInv, NEW p \in Procs, NEW l, Goto(p, l)
  PROVE  /\ DOMAIN pc' = Procs
         /\ pc'[p] = l
         /\ \A q \in Procs \ {p} : pc'[q] = pc[q]
BY DEF Goto, TokensInv, AttemptTypes

(***************************************************************************)
(* A process notes what it is about, and the others keep what they noted.  *)
(***************************************************************************)
LEMMA Remembering ==
  ASSUME TokensInv, NEW p \in Procs, NEW j, Remember(p, j)
  PROVE  /\ DOMAIN job' = Procs
         /\ job'[p] = j
         /\ \A q \in Procs \ {p} : job'[q] = job[q]
BY DEF Remember, TokensInv, AttemptTypes

(***************************************************************************)
(* Writing a ban record marks those that write it next; no attempt is among *)
(* them.                                                                   *)
(***************************************************************************)
LEMMA RecordWriting ==
  ASSUME TokensInv, NEW p \in Procs, NEW k, NEW r, NEW j, WriteRecord(p, k, r, j)
  PROVE  /\ DOMAIN job' = Procs
         /\ \A q \in Procs \ {p} : Attempting(q) => job'[q] = job[q]
BY DEF WriteRecord, Writing, Attempting

(***************************************************************************)
(* So every step of a call of the ban manager leaves the attempts alone.   *)
(***************************************************************************)
LEMMA BanStepBystands ==
  ASSUME TokensInv, NEW p \in Procs, SharedBanStep(p), UNCHANGED <<clock, banVars, challengeVars>>
  PROVE  BystanderStep
<1>1. UNCHANGED <<clock, claims, lastUse, replayed, outlived>>
  BY DEF challengeVars
<1>2. CASE LookAtRecord(p)
  <2>1. CASE Done(p)
    BY <1>1, <2>1, ReturningIsBystanding
  <2>2. ASSUME NEW l \in {"drop", "set"}, Goto(p, l), UNCHANGED job PROVE BystanderStep
    <3>1. ~Attempting(p)'
      BY <2>2, Jumping DEF Attempting
    <3>2. DOMAIN pc' = Procs /\ \A q \in Procs \ {p} : pc'[q] = pc[q]
      BY <2>2, Jumping
    <3>3. QED
      BY <1>1, <2>2, <3>1, <3>2, BanCallStep DEF TokensInv, AttemptTypes
  <2>3. QED
    BY <1>2, <2>1, <2>2 DEF LookAtRecord
<1>3. CASE DropRecord(p) \/ SetRecord(p)
  <2>1. PICK l \in {"idle", "set"} : \E k, r, j : Goto(p, l) /\ WriteRecord(p, k, r, j)
    BY <1>3 DEF DropRecord, SetRecord
  <2>2. ~Attempting(p)'
    BY <2>1, Jumping DEF Attempting
  <2>3. QED
    BY <1>1, <2>1, <2>2, Jumping, RecordWriting, BanCallStep
<1>4. CASE ClearCounter(p)
  BY <1>1, <1>4, ReturningIsBystanding DEF ClearCounter
<1>5. ASSUME NEW k \in Keys, CountViolation(p, k) PROVE BystanderStep
  <2>1. CASE UNCHANGED <<pc, job>>
    BY <1>1, <2>1 DEF BystanderStep, AttemptTypes, Attempting, Holding, TokensInv
  <2>2. CASE Goto(p, "look") /\ \E j : Remember(p, j)
    <3>1. ~Attempting(p)'
      BY <2>2, Jumping DEF Attempting
    <3>2. QED
      BY <1>1, <2>2, <3>1, Jumping, Remembering, BanCallStep
  <2>3. QED
    BY <1>5, <2>1, <2>2 DEF CountViolation
<1>6. ASSUME NEW k \in Keys, CheckBan(p, k) PROVE BystanderStep
  <2>1. Goto(p, "look") /\ \E j : Remember(p, j)
    BY <1>6 DEF CheckBan
  <2>2. ~Attempting(p)'
    BY <2>1, Jumping DEF Attempting
  <2>3. QED
    BY <1>1, <2>1, <2>2, Jumping, Remembering, BanCallStep
<1>7. ASSUME NEW k \in Keys, ClearRecord(p, k) PROVE BystanderStep
  <2>1. Goto(p, "clear") /\ \E r, j : WriteRecord(p, k, r, j)
    BY <1>7 DEF ClearRecord
  <2>2. ~Attempting(p)'
    BY <2>1, Jumping DEF Attempting
  <2>3. QED
    BY <1>1, <2>1, <2>2, Jumping, RecordWriting, BanCallStep
<1>8. CASE Abandon(p)
  <2>1. Goto(p, "raised") /\ Remember(p, None)
    BY <1>8 DEF Abandon
  <2>2. ~Attempting(p)'
    BY <2>1, Jumping DEF Attempting
  <2>3. QED
    BY <1>1, <2>1, <2>2, Jumping, Remembering, BanCallStep
<1>9. CASE Recover(p)
  <2>1. Goto(p, "idle") /\ UNCHANGED job
    BY <1>9 DEF Recover
  <2>2. ~Attempting(p)'
    BY <2>1, Jumping DEF Attempting
  <2>3. DOMAIN pc' = Procs /\ \A q \in Procs \ {p} : pc'[q] = pc[q]
    BY <2>1, Jumping
  <2>4. QED
    BY <1>1, <2>1, <2>2, <2>3, BanCallStep DEF TokensInv, AttemptTypes
<1>10. QED
  BY <1>2, <1>3, <1>4, <1>5, <1>6, <1>7, <1>8, <1>9 DEF SharedBanStep

-----------------------------------------------------------------------------
(* The attempts. *)

(***************************************************************************)
(* What is submitted holds no claim yet.                                   *)
(***************************************************************************)
LEMMA SubmitStep ==
  ASSUME TokensInv, NEW p \in Procs, NEW k \in Keys, NEW t \in Tokens \union {NoToken},
         NEW s \in BOOLEAN, Submit(p, k, t, s)
  PROVE  BystanderStep
<1>1. UNCHANGED <<clock, claims, lastUse, replayed, outlived>>
  BY DEF Submit
<1>2. CASE UNCHANGED <<pc, job>>
  BY <1>1, <1>2 DEF BystanderStep, AttemptTypes, Attempting, Holding, TokensInv
<1>3. CASE /\ t # NoToken /\ Goto(p, "claim")
           /\ Remember(p, [key |-> k, token |-> t, until |-> 0])
  <2>1. /\ DOMAIN pc' = Procs /\ pc'[p] = "claim"
        /\ \A q \in Procs \ {p} : pc'[q] = pc[q]
    BY <1>3, Jumping
  <2>2. /\ DOMAIN job' = Procs /\ job'[p] \in Attempts
        /\ \A q \in Procs \ {p} : job'[q] = job[q]
    BY <1>3, Remembering DEF Attempts
  <2>3. AttemptTypes'
    BY <2>1, <2>2 DEF AttemptTypes, Attempting, TokensInv
  <2>4. QED
    BY <1>1, <2>1, <2>2, <2>3 DEF BystanderStep, Holding
<1>4. QED
  BY <1>2, <1>3 DEF Submit

(***************************************************************************)
(* A token is claimed when no claim is stored, and then nobody owns it and *)
(* nothing it passed before is still claimed.                              *)
(***************************************************************************)
LEMMA ClaimStep ==
  ASSUME TokensInv, NEW p \in Procs, ClaimToken(p)
  PROVE  TokensInv'
<1>0. PICK t \in Tokens : t = job[p].token
  BY DEF ClaimToken, TokensInv, AttemptTypes, Attempting, Attempts
<1>1. /\ pc[p] = "claim" /\ job[p].token = t /\ job[p] \in Attempts
      /\ UNCHANGED <<clock, lastUse, replayed, outlived>>
  BY <1>0 DEF ClaimToken, TokensInv, AttemptTypes, Attempting, Attempts
<1>2. CASE Done(p) /\ UNCHANGED claims
  BY <1>1, <1>2, ReturningIsBystanding, Bystander
<1>3. CASE /\ claims[t] = None
           /\ claims' = [claims EXCEPT ![t] = clock + TokenTTL]
           /\ job' = [job EXCEPT ![p].until = clock + TokenTTL]
           /\ Goto(p, "provider")
  <2>1. clock \in Int /\ TokenTTL \in Int /\ TokenTTL > 0 /\ None \notin Int
    BY ChallengeAssumption DEF TokensInv, ClaimTypes
  <2>2. /\ DOMAIN pc' = Procs /\ pc'[p] = "provider"
        /\ \A q \in Procs \ {p} : pc'[q] = pc[q]
    BY <1>3, Jumping
  <2>3. /\ DOMAIN job' = Procs /\ job'[p] \in Attempts
        /\ job'[p].token = t /\ job'[p].until = clock + TokenTTL
        /\ \A q \in Procs \ {p} : job'[q] = job[q]
    BY <1>1, <1>3, <2>1 DEF Attempts, TokensInv, AttemptTypes
  <2>4. AttemptTypes'
    BY <2>2, <2>3 DEF AttemptTypes, Attempting, TokensInv
  <2>5. ClaimTypes'
    BY <1>1, <1>3, <2>1 DEF ClaimTypes, TokensInv
  <2>6. /\ claims'[t] = clock + TokenTTL
        /\ \A u \in Tokens \ {t} : claims'[u] = claims[u]
    BY <1>1, <1>3 DEF ClaimTypes, TokensInv
  <2>7. \A q \in Procs \ {p}, u \in Tokens : Owns(q, u)' <=> Owns(q, u)
    BY <1>1, <2>2, <2>3 DEF Owns, Holding
  <2>8. \A u \in Tokens \ {t} : ~Owns(p, u)'
    BY <2>3 DEF Owns
  <2>9. ASSUME ~outlived[t] PROVE OwnersAreAlone(t)' /\ PassedIsClaimed(t)'
    <3>1. OwnersAreAlone(t) /\ PassedIsClaimed(t)
      BY <1>1, <2>9 DEF TokensInv, Orderly
    <3>2. \A q \in Procs : ~Owns(q, t)
      BY <1>3, <2>1, <3>1 DEF OwnersAreAlone, Owns, Holding, TokensInv, AttemptTypes, Attempting, Attempts
    <3>3. lastUse[t] = None \/ (lastUse[t] \in Int /\ lastUse[t] <= clock)
      BY <1>1, <1>3, <2>1, <3>1 DEF PassedIsClaimed, TokensInv, ClaimTypes
    <3>4. QED
      BY <1>1, <2>1, <2>3, <2>6, <2>7, <3>2, <3>3 DEF OwnersAreAlone, PassedIsClaimed
  <2>10. ASSUME NEW u \in Tokens \ {t} PROVE Orderly(u)'
    <3>1. Orderly(u)
      BY DEF TokensInv
    <3>2. \A q \in Procs : Owns(q, u)' => Owns(q, u) /\ job'[q] = job[q]
      BY <2>3, <2>7, <2>8
    <3>3. QED
      BY <1>1, <2>6, <3>1, <3>2 DEF Orderly, OwnersAreAlone, PassedIsClaimed
  <2>11. Orderly(t)'
    BY <1>1, <2>9 DEF Orderly, TokensInv
  <2>12. QED
    BY <2>4, <2>5, <2>10, <2>11 DEF TokensInv
<1>4. QED
  BY <1>1, <1>2, <1>3 DEF ClaimToken, Claimable

(***************************************************************************)
(* The attempt p ends with its token t as it was, or passed, or released:  *)
(* what that leaves of t.  The other tokens do not notice.                 *)
(***************************************************************************)
LEMMA Ending ==
  ASSUME TokensInv, NEW p \in Procs, NEW t \in Tokens, Holding(p), job[p].token = t,
         AttemptTypes', ClaimTypes',
         \A q \in Procs : Holding(q)' =>
           /\ Holding(q) /\ job'[q] = job[q]
           /\ q = p => claims'[t] = claims[t] /\ lastUse'[t] = lastUse[t],
         Outlives(p, t), UNCHANGED clock,
         \A u \in Tokens \ {t} : /\ claims'[u] = claims[u] /\ lastUse'[u] = lastUse[u]
                                /\ replayed'[u] = replayed[u],
         ~outlived[t] /\ Owns(p, t) => PassedIsClaimed(t)' /\ ~replayed'[t]
  PROVE  TokensInv'
<1>1. \A q \in Procs, u \in Tokens : Owns(q, u)' => Owns(q, u) /\ job'[q] = job[q]
  BY DEF Owns
<1>2. /\ outlived'[t] = (outlived[t] \/ clock >= job[p].until)
      /\ \A u \in Tokens \ {t} : outlived'[u] = outlived[u]
  BY DEF Outlives, TokensInv, ClaimTypes
<1>3. ASSUME NEW u \in Tokens \ {t} PROVE Orderly(u)'
  BY <1>1, <1>2 DEF Orderly, OwnersAreAlone, PassedIsClaimed, TokensInv
<1>4. ASSUME ~outlived'[t] PROVE /\ ~outlived[t] /\ Owns(p, t)
                                 /\ OwnersAreAlone(t) /\ PassedIsClaimed(t)
  <2>1. job[p].until \in Int /\ clock \in Int
    BY DEF TokensInv, AttemptTypes, ClaimTypes, Attempting, Holding, Attempts
  <2>2. ~outlived[t] /\ ~(clock >= job[p].until)
    BY <1>2, <1>4
  <2>3. clock < job[p].until
    BY <2>1, <2>2
  <2>4. Owns(p, t)
    BY <2>3 DEF Owns
  <2>5. OwnersAreAlone(t) /\ PassedIsClaimed(t)
    BY <2>2 DEF TokensInv, Orderly
  <2>6. QED
    BY <2>2, <2>4, <2>5
<1>5. ASSUME ~outlived'[t] PROVE OwnersAreAlone(t)'
  <2>1. \A q \in Procs : Owns(q, t)' => q = p /\ Owns(p, t) /\ job'[p] = job[p]
    BY <1>1, <1>4, <1>5 DEF OwnersAreAlone
  <2>2. ASSUME Owns(p, t)' PROVE claims'[t] = claims[t] /\ lastUse'[t] = lastUse[t]
    BY <2>2 DEF Owns
  <2>3. QED
    BY <1>4, <1>5, <2>1, <2>2 DEF OwnersAreAlone
<1>6. Orderly(t)'
  BY <1>4, <1>5 DEF Orderly
<1>7. QED
  BY <1>3, <1>6 DEF TokensInv

(***************************************************************************)
(* An answer passes a token at most while its claim lasts; the claim stays *)
(* until it runs out, and so nobody passes it again before.                *)
(***************************************************************************)
LEMMA RespondStep ==
  ASSUME TokensInv, NEW p \in Procs, NEW a, Respond(p, a)
  PROVE  TokensInv'
<1>0. PICK t \in Tokens : t = job[p].token
  BY DEF Respond, TokensInv, AttemptTypes, Attempting, Attempts
<1>1. /\ pc[p] = "provider" /\ Holding(p) /\ job[p].token = t /\ job[p] \in Attempts
      /\ Outlives(p, t) /\ UNCHANGED <<clock, claims>>
  BY <1>0 DEF Respond, TokensInv, AttemptTypes, Attempting, Holding
<1>2. outlived' \in [Tokens -> BOOLEAN]
  BY <1>1 DEF Outlives, TokensInv, ClaimTypes
<1>3. CASE /\ Goto(p, IF Verdict(a) = "unavailable" THEN "release" ELSE "failed")
           /\ UNCHANGED <<job, lastUse, replayed>>
  <2>1. /\ DOMAIN pc' = Procs /\ pc'[p] \in {"release", "failed"}
        /\ \A q \in Procs \ {p} : pc'[q] = pc[q]
    BY <1>3, Jumping
  <2>2. AttemptTypes'
    BY <1>1, <1>3, <2>1 DEF AttemptTypes, Attempting, TokensInv
  <2>3. ClaimTypes'
    BY <1>1, <1>2, <1>3 DEF ClaimTypes, TokensInv
  <2>4. \A q \in Procs : Holding(q)' => Holding(q) /\ job'[q] = job[q]
    BY <1>1, <1>3, <2>1 DEF Holding
  <2>5. ~outlived[t] => PassedIsClaimed(t)' /\ ~replayed'[t]
    BY <1>1, <1>3 DEF TokensInv, Orderly, PassedIsClaimed
  <2>6. QED
    BY <1>1, <1>3, <2>2, <2>3, <2>4, <2>5, Ending
<1>4. CASE /\ Done(p)
           /\ lastUse' = [lastUse EXCEPT ![t] = job[p].until]
           /\ replayed' = [replayed EXCEPT ![t] =
                @ \/ (lastUse[t] # None /\ job[p].until < lastUse[t] + TokenTTL)]
  <2>1. /\ AttemptTypes' /\ ~Attempting(p)'
        /\ \A q \in Procs \ {p} : pc'[q] = pc[q] /\ job'[q] = job[q]
    BY <1>4, Returning DEF TokensInv
  <2>2. ClaimTypes'
    BY <1>1, <1>2, <1>4 DEF ClaimTypes, Attempts, TokensInv
  <2>3. \A q \in Procs : Holding(q)' => q # p /\ Holding(q) /\ job'[q] = job[q]
    BY <2>1 DEF Holding, Attempting
  <2>4. /\ lastUse'[t] = job[p].until
        /\ \A u \in Tokens \ {t} : lastUse'[u] = lastUse[u] /\ replayed'[u] = replayed[u]
        /\ replayed'[t] = (replayed[t] \/ (lastUse[t] # None /\ job[p].until < lastUse[t] + TokenTTL))
    BY <1>4 DEF TokensInv, ClaimTypes
  <2>5. ASSUME ~outlived[t], Owns(p, t) PROVE PassedIsClaimed(t)' /\ ~replayed'[t]
    <3>1. /\ ~replayed[t] /\ claims[t] = job[p].until
          /\ lastUse[t] = None \/ lastUse[t] + TokenTTL <= job[p].until
      BY <2>5 DEF TokensInv, Orderly, OwnersAreAlone
    <3>2. lastUse[t] # None => lastUse[t] \in Int
      BY DEF TokensInv, ClaimTypes
    <3>3. TokenTTL \in Int /\ job[p].until \in Int
      BY <1>1, ChallengeAssumption DEF Attempts
    <3>4. ~(lastUse[t] # None /\ job[p].until < lastUse[t] + TokenTTL)
      BY <3>1, <3>2, <3>3
    <3>5. ~replayed'[t]
      BY <2>4, <3>1, <3>4
    <3>6. QED
      BY <1>1, <2>4, <3>1, <3>5 DEF PassedIsClaimed
  <2>6. QED
    BY <1>1, <2>1, <2>2, <2>3, <2>4, <2>5, Ending
<1>5. QED
  BY <1>0, <1>1, <1>3, <1>4 DEF Respond

(***************************************************************************)
(* A release within the claim deletes that claim and no other, and nothing *)
(* the token passed before is still claimed then.                          *)
(***************************************************************************)
LEMMA ReleaseStep ==
  ASSUME TokensInv, NEW p \in Procs, ReleaseToken(p)
  PROVE  TokensInv'
<1>0. PICK t \in Tokens : t = job[p].token
  BY DEF ReleaseToken, TokensInv, AttemptTypes, Attempting, Attempts
<1>1. /\ Holding(p) /\ job[p].token = t /\ job[p] \in Attempts /\ Done(p)
      /\ Outlives(p, t) /\ UNCHANGED <<clock, lastUse, replayed>>
      /\ claims' = [claims EXCEPT ![t] = None]
  BY <1>0 DEF ReleaseToken, TokensInv, AttemptTypes, Attempting, Holding
<1>2. /\ AttemptTypes' /\ ~Attempting(p)'
      /\ \A q \in Procs \ {p} : pc'[q] = pc[q] /\ job'[q] = job[q]
  BY <1>1, Returning DEF TokensInv
<1>3. ClaimTypes'
  BY <1>1 DEF Outlives, ClaimTypes, TokensInv
<1>4. \A q \in Procs : Holding(q)' => q # p /\ Holding(q) /\ job'[q] = job[q]
  BY <1>2 DEF Holding, Attempting
<1>5. \A u \in Tokens \ {t} : claims'[u] = claims[u]
  BY <1>1 DEF TokensInv, ClaimTypes
<1>6. ASSUME ~outlived[t], Owns(p, t) PROVE PassedIsClaimed(t)' /\ ~replayed'[t]
  <2>1. /\ ~replayed[t] /\ claims[t] = job[p].until /\ PassedIsClaimed(t)
        /\ lastUse[t] = None \/ lastUse[t] + TokenTTL <= job[p].until
    BY <1>6 DEF TokensInv, Orderly, OwnersAreAlone
  <2>2. lastUse[t] # None => lastUse[t] \in Int
    BY DEF TokensInv, ClaimTypes
  <2>3. TokenTTL \in Int /\ TokenTTL > 0 /\ job[p].until \in Int /\ clock \in Int
    BY <1>1, ChallengeAssumption DEF Attempts, TokensInv, ClaimTypes
  <2>4. lastUse[t] = None \/ ~(clock < lastUse[t])
    BY <2>1, <2>2, <2>3 DEF PassedIsClaimed
  <2>5. QED
    BY <1>1, <2>1, <2>4 DEF PassedIsClaimed
<1>7. QED
  BY <1>1, <1>2, <1>3, <1>4, <1>5, <1>6, Ending

(***************************************************************************)
(* Time takes claims away no sooner than they run out.                     *)
(***************************************************************************)
LEMMA ChallengeTickStep ==
  ASSUME TokensInv, ChallengeTick
  PROVE  TokensInv'
<1>1. /\ clock \in Int /\ clock' = clock + 1
      /\ UNCHANGED <<pc, job, lastUse, replayed, outlived>>
      /\ claims' = [t \in Tokens |->
           IF claims[t] # None /\ claims[t] <= clock' THEN None ELSE claims[t]]
  BY DEF ChallengeTick, SharedBansAge, TokensInv, ClaimTypes
<1>2. AttemptTypes'
  BY <1>1 DEF AttemptTypes, Attempting, TokensInv
<1>3. ClaimTypes'
  BY <1>1 DEF ClaimTypes, TokensInv
<1>4. ASSUME NEW t \in Tokens, ~outlived[t]
      PROVE  OwnersAreAlone(t)' /\ PassedIsClaimed(t)'
  <2>1. OwnersAreAlone(t) /\ PassedIsClaimed(t)
    BY <1>4 DEF TokensInv, Orderly
  <2>2. ASSUME NEW q \in Procs, Owns(q, t)'
        PROVE  Owns(q, t) /\ job[q].until \in Int /\ claims'[t] = claims[t]
    <3>1. Holding(q) /\ job[q].token = t /\ clock' < job[q].until /\ job[q].until \in Int
      BY <1>1, <2>2 DEF Owns, Holding, TokensInv, AttemptTypes, Attempting, Attempts
    <3>2. clock < job[q].until
      BY <1>1, <3>1
    <3>3. Owns(q, t) /\ claims[t] = job[q].until
      BY <2>1, <3>1, <3>2 DEF Owns, OwnersAreAlone
    <3>4. QED
      BY <1>1, <3>1, <3>3
  <2>3. OwnersAreAlone(t)'
    BY <1>1, <2>1, <2>2 DEF OwnersAreAlone
  <2>4. PassedIsClaimed(t)'
    BY <1>1, <2>1 DEF PassedIsClaimed, TokensInv, ClaimTypes
  <2>5. QED
    BY <2>3, <2>4
<1>5. \A t \in Tokens : Orderly(t)'
  BY <1>1, <1>4 DEF TokensInv, Orderly
<1>6. QED
  BY <1>2, <1>3, <1>5 DEF TokensInv

-----------------------------------------------------------------------------

(***************************************************************************)
(* Every reachable state is orderly: TokensInv is inductive.                    *)
(***************************************************************************)
THEOREM TokensStayOrderly == ChallengeSpec => []TokensInv
<1>1. ChallengeInit => TokensInv
  <2>1. SUFFICES ASSUME ChallengeInit PROVE TokensInv
    OBVIOUS
  <2>2. AttemptTypes
    BY <2>1 DEF ChallengeInit, SharedBanInit, AttemptTypes, Attempting
  <2>3. ClaimTypes
    BY <2>1 DEF ChallengeInit, ClaimTypes
  <2>4. QED
    BY <2>1, <2>2, <2>3 DEF TokensInv, ChallengeInit, SharedBanInit, Orderly, OwnersAreAlone,
                            PassedIsClaimed, Owns, Holding
<1>2. TokensInv /\ [ChallengeNext]_flowVars => TokensInv'
  <2>1. SUFFICES ASSUME TokensInv, [ChallengeNext]_flowVars PROVE TokensInv'
    OBVIOUS
  <2>2. CASE ChallengeTick
    BY <2>1, <2>2, ChallengeTickStep
  <2>3. ASSUME NEW p \in Procs, SharedBanStep(p), UNCHANGED <<clock, banVars, challengeVars>>
        PROVE  TokensInv'
    BY <2>1, <2>3, BanStepBystands, Bystander
  <2>4. ASSUME NEW p \in Procs, ClaimToken(p) PROVE TokensInv'
    BY <2>1, <2>4, ClaimStep
  <2>5. ASSUME NEW p \in Procs, ReleaseToken(p) PROVE TokensInv'
    BY <2>1, <2>5, ReleaseStep
  <2>6. ASSUME NEW p \in Procs, RecordFailure(p) \/ Escalate(p) \/ Cancel(p)
        PROVE  TokensInv'
    <3>1. UNCHANGED <<clock, claims, lastUse, replayed, outlived>>
      BY <2>6 DEF RecordFailure, Escalate, Cancel, challengeVars
    <3>2. CASE Done(p)
      BY <2>1, <3>1, <3>2, ReturningIsBystanding, Bystander
    <3>3. CASE pc[p] = "failed" /\ Goto(p, "escalate") /\ UNCHANGED job
      <4>1. /\ DOMAIN pc' = Procs /\ pc'[p] = "escalate"
            /\ \A q \in Procs \ {p} : pc'[q] = pc[q]
        BY <2>1, <3>3, Jumping
      <4>2. AttemptTypes'
        BY <2>1, <3>3, <4>1 DEF AttemptTypes, Attempting, TokensInv
      <4>3. \A q \in Procs : Holding(q)' => Holding(q) /\ job'[q] = job[q]
        BY <3>3, <4>1 DEF Holding
      <4>4. QED
        BY <2>1, <3>1, <4>2, <4>3, Bystander DEF BystanderStep
    <3>4. QED
      BY <2>6, <3>2, <3>3 DEF RecordFailure, Escalate, Cancel
  <2>7. ASSUME NEW p \in Procs, NEW a, Respond(p, a) PROVE TokensInv'
    BY <2>1, <2>7, RespondStep
  <2>8. ASSUME NEW p \in Procs, NEW k \in Keys, NEW t \in Tokens \union {NoToken},
               NEW s \in BOOLEAN, Submit(p, k, t, s)
        PROVE  TokensInv'
    BY <2>1, <2>8, SubmitStep, Bystander
  <2>9. CASE UNCHANGED flowVars
    BY <2>1, <2>9 DEF flowVars, sharedBanVars, challengeVars, BystanderStep, TokensInv, AttemptTypes,
                      ClaimTypes, Attempting, Orderly, OwnersAreAlone, PassedIsClaimed, Owns, Holding
  <2>10. QED
    BY <2>1, <2>2, <2>3, <2>4, <2>5, <2>6, <2>7, <2>8, <2>9 DEF ChallengeNext
<1>3. QED
  BY <1>1, <1>2, PTL DEF ChallengeSpec

(***************************************************************************)
(* TokenCountsOnce of Challenge, for any number of attempts in progress,   *)
(* clients and tokens: whatever the provider answers and in whatever order *)
(* the attempts take their steps (manager.py:340, claim before verify).    *)
(***************************************************************************)
THEOREM TokensCountOnce == ChallengeSpec => []TokenCountsOnce
<1>1. TokensInv => TokenCountsOnce
  BY DEF TokensInv, Orderly, TokenCountsOnce
<1>2. QED
  BY <1>1, TokensStayOrderly, PTL

-----------------------------------------------------------------------------
(* What a counter has to do with the times of what it counts *)

\* s is a list of times up to now, the latest last.
Past(s, now) ==
  /\ s \in Seq(Nat)
  /\ InOrder(s)
  /\ \A i \in 1..Len(s) : FromEnd(s, i) <= now

\* A counter of n that ends at e has all the times there are, ...
CoversAll(n, e, s, window) ==
  /\ Len(s) <= n
  /\ \A i \in 1..Len(s) : FromEnd(s, i) + window <= e

\* ... or has none but the latest, ...
CountsTheLast(n, e, s, window) ==
  /\ n <= Len(s)
  /\ \A i \in 1..n : e <= FromEnd(s, i) + window

\* ... where those it does not have are few, and gone by its end.
LeavesFew(n, e, s, window, few) ==
  /\ Len(s) <= n + few
  /\ \A i \in 1..Len(s) : i > n => FromEnd(s, i) + window <= e

(***************************************************************************)
(* One more time, the present one.                                         *)
(***************************************************************************)
LEMMA AppendedNow ==
  ASSUME NEW now \in Nat, NEW s, Past(s, now)
  PROVE  /\ Past(Append(s, now), now)
         /\ Len(s) \in Nat /\ Len(Append(s, now)) = Len(s) + 1
         /\ \A i \in 1..(Len(s) + 1) :
              \/ i = 1 /\ FromEnd(Append(s, now), i) = now
              \/ i - 1 \in 1..Len(s) /\ FromEnd(Append(s, now), i) = FromEnd(s, i - 1)
<1> DEFINE all == Append(s, now)
<1>1. /\ s \in Seq(Nat) /\ Len(s) \in Nat
      /\ \A i \in 1..Len(s) : FromEnd(s, i) \in Nat /\ FromEnd(s, i) <= now
  BY TimesAreNumbers DEF Past
<1>2. /\ all \in Seq(Nat) /\ Len(all) = Len(s) + 1
      /\ FromEnd(all, 1) = now
      /\ \A i \in 1..Len(s) : FromEnd(all, i + 1) = FromEnd(s, i)
  BY <1>1, AppendingIsLatest
<1> HIDE DEF all
<1>3. ASSUME NEW i \in 1..Len(all)
      PROVE  \/ i = 1 /\ FromEnd(all, i) = now
             \/ i - 1 \in 1..Len(s) /\ FromEnd(all, i) = FromEnd(s, i - 1)
  <2>1. i = 1 \/ (i - 1 \in 1..Len(s) /\ (i - 1) + 1 = i)
    BY <1>1, <1>2
  <2>2. QED
    BY <1>2, <2>1
<1>4. \A i \in 1..Len(all) : FromEnd(all, i) <= now
  BY <1>1, <1>3
<1>5. InOrder(all)
  <2> SUFFICES ASSUME NEW i \in 1..Len(all), NEW j \in 1..Len(all), i <= j
               PROVE  FromEnd(all, j) <= FromEnd(all, i)
    BY DEF InOrder
  <2>1. CASE i = 1
    BY <1>1, <1>3, <1>4, <2>1
  <2>2. CASE i # 1
    <3>1. i - 1 \in 1..Len(s) /\ FromEnd(all, i) = FromEnd(s, i - 1)
      BY <1>3, <2>2
    <3>2. j # 1
      BY <2>2
    <3>3. j - 1 \in 1..Len(s) /\ FromEnd(all, j) = FromEnd(s, j - 1)
      BY <1>3, <3>2
    <3>4. i - 1 <= j - 1
      BY <1>1, <1>2
    <3>5. QED
      BY <3>1, <3>3, <3>4 DEF Past, InOrder
  <2>3. QED
    BY <2>1, <2>2
<1>6. QED
  BY <1>1, <1>2, <1>3, <1>4, <1>5 DEF Past, all

LEMMA AppendingCovers ==
  ASSUME NEW now \in Nat, NEW s, Past(s, now), NEW window \in Nat, NEW n \in Nat,
         Len(s) <= n
  PROVE  /\ CoversAll(n + 1, now + window, Append(s, now), window)
         /\ CoversAll(n, now + window, s, window)
<1> DEFINE all == Append(s, now)
<1>1. /\ Past(all, now) /\ Len(all) = Len(s) + 1 /\ Len(s) \in Nat
  BY AppendedNow
<1>2. \A i \in 1..Len(all) : FromEnd(all, i) \in Nat /\ FromEnd(all, i) <= now
  BY <1>1, TimesAreNumbers DEF Past
<1>3. \A i \in 1..Len(s) : FromEnd(s, i) \in Nat /\ FromEnd(s, i) <= now
  BY TimesAreNumbers DEF Past
<1> HIDE DEF all
<1>4. CoversAll(n + 1, now + window, all, window)
  BY <1>1, <1>2 DEF CoversAll
<1>5. CoversAll(n, now + window, s, window)
  BY <1>3 DEF CoversAll
<1>6. QED
  BY <1>4, <1>5 DEF all

LEMMA AppendingCounts ==
  ASSUME NEW now \in Nat, NEW s, Past(s, now), NEW window \in Nat, NEW n \in Nat,
         NEW e \in Nat, e <= now + window, CountsTheLast(n, e, s, window)
  PROVE  CountsTheLast(n + 1, e, Append(s, now), window)
<1> DEFINE all == Append(s, now)
<1>1. /\ Len(all) = Len(s) + 1 /\ Len(s) \in Nat
      /\ \A i \in 1..(Len(s) + 1) :
           \/ i = 1 /\ FromEnd(all, i) = now
           \/ i - 1 \in 1..Len(s) /\ FromEnd(all, i) = FromEnd(s, i - 1)
  BY AppendedNow
<1> HIDE DEF all
<1>2. ASSUME NEW i \in 1..(n + 1)
      PROVE  e <= FromEnd(all, i) + window
  <2>1. i \in 1..(Len(s) + 1)
    BY <1>1 DEF CountsTheLast
  <2>2. CASE i = 1 /\ FromEnd(all, i) = now
    BY <2>2
  <2>3. CASE FromEnd(all, i) = FromEnd(s, i - 1) /\ i - 1 \in 1..Len(s)
    <3>1. i - 1 \in 1..n
      BY <2>3
    <3>2. e <= FromEnd(s, i - 1) + window
      BY <3>1 DEF CountsTheLast
    <3>3. QED
      BY <2>3, <3>2
  <2>4. QED
    BY <1>1, <2>1, <2>2, <2>3
<1>3. QED
  BY <1>1, <1>2 DEF CountsTheLast, all

LEMMA AppendingLeavesFew ==
  ASSUME NEW now \in Nat, NEW s, Past(s, now), NEW window \in Nat, NEW n \in Nat,
         NEW e \in Nat, NEW few \in Nat, LeavesFew(n, e, s, window, few)
  PROVE  LeavesFew(n + 1, e, Append(s, now), window, few)
<1> DEFINE all == Append(s, now)
<1>1. /\ Len(all) = Len(s) + 1 /\ Len(s) \in Nat
      /\ \A i \in 1..(Len(s) + 1) :
           \/ i = 1 /\ FromEnd(all, i) = now
           \/ i - 1 \in 1..Len(s) /\ FromEnd(all, i) = FromEnd(s, i - 1)
  BY AppendedNow
<1> HIDE DEF all
<1>2. ASSUME NEW i \in 1..Len(all), i > n + 1
      PROVE  FromEnd(all, i) + window <= e
  <2>1. i - 1 \in 1..Len(s) /\ FromEnd(all, i) = FromEnd(s, i - 1) /\ i - 1 > n
    BY <1>1, <1>2
  <2>2. FromEnd(s, i - 1) + window <= e
    BY <2>1 DEF LeavesFew
  <2>3. QED
    BY <2>1, <2>2
<1>3. QED
  BY <1>1, <1>2 DEF LeavesFew, all

(***************************************************************************)
(* Time passes, and what is older than the window is forgotten.            *)
(***************************************************************************)
LEMMA ForgottenByNow ==
  ASSUME NEW now \in Nat, NEW s, Past(s, now), NEW window \in Nat,
         NEW t \in Nat, now <= t
  PROVE  LET w == Within(s, window, t) IN
         /\ Past(w, t)
         /\ Len(s) \in Nat /\ Len(w) \in Nat /\ Len(w) <= Len(s)
         /\ \A i \in 1..Len(w) : FromEnd(w, i) = FromEnd(s, i) /\ t < FromEnd(s, i) + window
         /\ \A i \in 1..Len(s) : t < FromEnd(s, i) + window => i <= Len(w)
<1> DEFINE w == Within(s, window, t)
<1>1. /\ s \in Seq(Nat) /\ Len(s) \in Nat
      /\ \A i \in 1..Len(s) : FromEnd(s, i) \in Nat /\ FromEnd(s, i) <= now
  BY TimesAreNumbers DEF Past
<1>2. /\ EndOf(w, s)
      /\ \A i \in 1..Len(s) : i <= Len(w) <=> t - FromEnd(s, i) < window
  BY <1>1, WithinIsTheWindow DEF Past
<1> HIDE DEF w
<1>3. /\ w \in Seq(Nat) /\ Len(w) \in Nat /\ Len(w) <= Len(s)
      /\ \A i \in 1..Len(w) : FromEnd(w, i) = FromEnd(s, i)
  BY <1>2, TimesAreNumbers DEF EndOf
<1>4. \A i \in 1..Len(w) : i \in 1..Len(s)
  BY <1>1, <1>3
<1>5. InOrder(w)
  BY <1>3, <1>4 DEF Past, InOrder
<1>6. \A i \in 1..Len(w) : FromEnd(w, i) <= t
  BY <1>1, <1>3, <1>4
<1>7. \A i \in 1..Len(s) : t < FromEnd(s, i) + window <=> t - FromEnd(s, i) < window
  BY <1>1
<1>8. QED
  BY <1>1, <1>2, <1>3, <1>4, <1>5, <1>6, <1>7 DEF Past, w

LEMMA ForgettingCovers ==
  ASSUME NEW now \in Nat, NEW s, Past(s, now), NEW window \in Nat,
         NEW t \in Nat, now <= t, NEW n \in Nat, NEW e \in Nat, CoversAll(n, e, s, window)
  PROVE  /\ CoversAll(n, e, Within(s, window, t), window)
         /\ e <= t => Len(Within(s, window, t)) = 0
<1> DEFINE w == Within(s, window, t)
<1>1. /\ Len(s) \in Nat /\ Len(w) \in Nat /\ Len(w) <= Len(s)
      /\ \A i \in 1..Len(w) : FromEnd(w, i) = FromEnd(s, i) /\ t < FromEnd(s, i) + window
  BY ForgottenByNow
<1> HIDE DEF w
<1>2. \A i \in 1..Len(w) : i \in 1..Len(s)
  BY <1>1
<1>3. \A i \in 1..Len(s) : FromEnd(s, i) \in Nat
  BY TimesAreNumbers DEF Past
<1>4. CoversAll(n, e, w, window)
  BY <1>1, <1>2 DEF CoversAll
<1>5. ASSUME e <= t PROVE Len(w) = 0
  <2> SUFFICES ASSUME Len(w) # 0 PROVE FALSE
    OBVIOUS
  <2>1. 1 \in 1..Len(w) /\ 1 \in 1..Len(s)
    BY <1>1
  <2>2. t < FromEnd(s, 1) + window /\ FromEnd(s, 1) + window <= e
    BY <1>1, <2>1 DEF CoversAll
  <2>3. QED
    BY <1>3, <1>5, <2>1, <2>2
<1>6. QED
  BY <1>4, <1>5 DEF w

LEMMA ForgettingCounts ==
  ASSUME NEW now \in Nat, NEW s, Past(s, now), NEW window \in Nat,
         NEW t \in Nat, now <= t, NEW n \in Nat, NEW e \in Nat, t < e,
         CountsTheLast(n, e, s, window)
  PROVE  CountsTheLast(n, e, Within(s, window, t), window)
<1> DEFINE w == Within(s, window, t)
<1>1. /\ Len(s) \in Nat /\ Len(w) \in Nat /\ Len(w) <= Len(s)
      /\ \A i \in 1..Len(w) : FromEnd(w, i) = FromEnd(s, i)
      /\ \A i \in 1..Len(s) : t < FromEnd(s, i) + window => i <= Len(w)
  BY ForgottenByNow
<1> HIDE DEF w
<1>2. \A i \in 1..Len(s) : FromEnd(s, i) \in Nat
  BY TimesAreNumbers DEF Past
<1>3. n <= Len(s) /\ \A i \in 1..n : e <= FromEnd(s, i) + window
  BY DEF CountsTheLast
<1>4. n <= Len(w)
  <2> SUFFICES ASSUME n # 0 PROVE n <= Len(w)
    BY <1>1
  <2>1. n \in 1..n /\ n \in 1..Len(s)
    BY <1>1, <1>3
  <2>2. t < FromEnd(s, n) + window
    BY <1>2, <1>3, <2>1
  <2>3. QED
    BY <1>1, <2>1, <2>2
<1>5. \A i \in 1..n : i \in 1..Len(w)
  BY <1>1, <1>4
<1>6. QED
  BY <1>1, <1>3, <1>4, <1>5 DEF CountsTheLast, w

LEMMA ForgettingLeavesFew ==
  ASSUME NEW now \in Nat, NEW s, Past(s, now), NEW window \in Nat,
         NEW t \in Nat, now <= t, NEW n \in Nat, NEW e \in Nat, NEW few \in Nat,
         LeavesFew(n, e, s, window, few)
  PROVE  /\ LeavesFew(n, e, Within(s, window, t), window, few)
         /\ e <= t => Len(Within(s, window, t)) <= n
<1> DEFINE w == Within(s, window, t)
<1>1. /\ Len(s) \in Nat /\ Len(w) \in Nat /\ Len(w) <= Len(s)
      /\ \A i \in 1..Len(w) : FromEnd(w, i) = FromEnd(s, i) /\ t < FromEnd(s, i) + window
  BY ForgottenByNow
<1> HIDE DEF w
<1>2. \A i \in 1..Len(s) : FromEnd(s, i) \in Nat
  BY TimesAreNumbers DEF Past
<1>3. \A i \in 1..Len(w) : i \in 1..Len(s)
  BY <1>1
<1>4. Len(w) <= n + few
  BY <1>1 DEF LeavesFew
<1>5. \A i \in 1..Len(w) : i > n => FromEnd(w, i) + window <= e
  BY <1>1, <1>3 DEF LeavesFew
<1>6. ASSUME e <= t PROVE Len(w) <= n
  <2> SUFFICES ASSUME Len(w) > n PROVE FALSE
    BY <1>1
  <2> DEFINE i == Len(w)
  <2>1. i \in 1..Len(w) /\ i > n
    BY <1>1
  <2>2. FromEnd(s, i) + window <= e /\ t < FromEnd(s, i) + window /\ FromEnd(s, i) \in Nat
    BY <1>1, <1>2, <1>3, <1>5, <2>1
  <2>3. QED
    BY <1>6, <2>2
<1>7. QED
  BY <1>4, <1>5, <1>6 DEF LeavesFew, w

-----------------------------------------------------------------------------
(* The counters *)

CounterEntries == Counters \union {None}

Value(c) == IF c = None THEN 0 ELSE c.value

\* A counter that is not there ends as if it were created now.
EndOfCounter(c, window, now) == IF c = None THEN now + window ELSE c.expires

EndsInTime(c, window, now) == EndOfCounter(c, window, now) <= now + window

\* What the violation counter c has to do with the violations s.
CountIsFair(c, s, now, refreshed) ==
  LET e == EndOfCounter(c, BanWindow, now) IN
  /\ Past(s, now)
  /\ EndsInTime(c, BanWindow, now)
  /\ IF refreshed THEN CoversAll(Value(c), e, s, BanWindow)
     ELSE CountsTheLast(Value(c), e, s, BanWindow)

\* How many of the requests that c has were let in.
LetIn(c) == AtMost(Value(c), RequestLimit)

\* What the request counter c has to do with the attempts s that were let in.
LimitIsKept(c, s, now, refreshed) ==
  LET e == EndOfCounter(c, RequestWindow, now) IN
  /\ Past(s, now)
  /\ EndsInTime(c, RequestWindow, now)
  /\ IF refreshed THEN CoversAll(LetIn(c), e, s, RequestWindow)
     ELSE /\ CountsTheLast(LetIn(c), e, s, RequestWindow)
          /\ LeavesFew(LetIn(c), e, s, RequestWindow, RequestLimit)

CountersInv ==
  /\ clock \in Nat
  /\ refreshing \in BOOLEAN
  /\ counter \in [Keys -> CounterEntries]
  /\ requests \in [Keys -> CounterEntries]
  /\ DOMAIN times = Keys
  /\ DOMAIN admitted = Keys
  /\ \A k \in Keys :
       /\ CountIsFair(counter[k], times[k], clock, refreshing)
       /\ LimitIsKept(requests[k], admitted[k], clock, refreshing)

LEMMA CounterTypes ==
  ASSUME NEW c \in CounterEntries, NEW window \in Nat, NEW now \in Nat
  PROVE  /\ Value(c) \in Nat /\ EndOfCounter(c, window, now) \in Nat
         /\ c # None => c.value \in 1..MaxCount /\ c.expires \in Nat
         /\ LetIn(c) \in Nat /\ LetIn(c) <= RequestLimit /\ LetIn(c) <= Value(c)
<1>1. c # None => c.value \in 1..MaxCount /\ c.expires \in Nat
  BY DEF CounterEntries, Counters
<1>2. Value(c) \in Nat /\ EndOfCounter(c, window, now) \in Nat
  BY <1>1, ChallengeAssumption DEF Value, EndOfCounter
<1>3. QED
  BY <1>1, <1>2, ChallengeAssumption DEF LetIn, AtMost

(***************************************************************************)
(* What an increment makes of a counter.                                   *)
(***************************************************************************)
LEMMA BumpedCounter ==
  ASSUME NEW c \in CounterEntries, NEW window \in Nat, clock \in Nat, refreshing \in BOOLEAN,
         EndsInTime(c, window, clock), Bumped(c, window).value <= MaxCount
  PROVE  LET b == Bumped(c, window)
             e == EndOfCounter(b, window, clock)
         IN /\ b \in CounterEntries /\ b.value = Value(c) + 1
            /\ Value(b) = Value(c) + 1
            /\ EndsInTime(b, window, clock)
            /\ e = IF refreshing THEN clock + window ELSE EndOfCounter(c, window, clock)
<1> DEFINE b == Bumped(c, window)
<1>1. /\ Value(c) \in Nat /\ EndOfCounter(c, window, clock) \in Nat
      /\ c # None => c.value \in 1..MaxCount /\ c.expires \in Nat
  BY CounterTypes
<1>2. /\ b.value = Value(c) + 1
      /\ b.expires = IF refreshing THEN clock + window ELSE EndOfCounter(c, window, clock)
      /\ b = [value |-> b.value, expires |-> b.expires]
  BY DEF Bumped, Value, EndOfCounter
<1> HIDE DEF b
<1>3. b.value \in 1..MaxCount /\ b.expires \in Nat
  BY <1>1, <1>2, ChallengeAssumption DEF b
<1>4. b \in Counters
  BY <1>2, <1>3 DEF Counters
<1>5. b # None
  BY <1>2, <1>3, ChallengeAssumption
<1>6. EndOfCounter(b, window, clock) = b.expires /\ Value(b) = b.value
  BY <1>5 DEF EndOfCounter, Value
<1>7. EndsInTime(b, window, clock)
  BY <1>1, <1>2, <1>6 DEF EndsInTime
<1>8. QED
  BY <1>2, <1>4, <1>6, <1>7 DEF b, CounterEntries

(***************************************************************************)
(* A violation is counted.                                                 *)
(***************************************************************************)
LEMMA CountingIsFair ==
  ASSUME NEW c \in CounterEntries, NEW s, clock \in Nat, refreshing \in BOOLEAN,
         CountIsFair(c, s, clock, refreshing), Bumped(c, BanWindow).value <= MaxCount
  PROVE  CountIsFair(Bumped(c, BanWindow), Append(s, clock), clock, refreshing)
<1> DEFINE b == Bumped(c, BanWindow)
           n == Value(c)
           e == EndOfCounter(c, BanWindow, clock)
<1>0. BanWindow \in Nat
  BY BanAssumption
<1>1. /\ n \in Nat /\ e \in Nat
  BY <1>0, CounterTypes
<1>2. /\ Past(s, clock) /\ e <= clock + BanWindow
      /\ IF refreshing THEN CoversAll(n, e, s, BanWindow) ELSE CountsTheLast(n, e, s, BanWindow)
  BY DEF CountIsFair, EndsInTime
<1>3. /\ Value(b) = n + 1
      /\ EndsInTime(b, BanWindow, clock)
      /\ EndOfCounter(b, BanWindow, clock) = IF refreshing THEN clock + BanWindow ELSE e
  BY <1>0, BumpedCounter DEF CountIsFair
<1> HIDE DEF b, n, e
<1>4. Past(Append(s, clock), clock)
  BY <1>2, AppendedNow
<1>5. CASE refreshing
  <2>1. Len(s) <= n
    BY <1>2, <1>5 DEF CoversAll
  <2>2. CoversAll(n + 1, clock + BanWindow, Append(s, clock), BanWindow)
    BY <1>0, <1>1, <1>2, <2>1, AppendingCovers
  <2>3. QED
    BY <1>3, <1>4, <1>5, <2>2 DEF CountIsFair, b
<1>6. CASE ~refreshing
  <2>1. CountsTheLast(n + 1, e, Append(s, clock), BanWindow)
    BY <1>0, <1>1, <1>2, <1>6, AppendingCounts
  <2>2. QED
    BY <1>3, <1>4, <1>6, <2>1 DEF CountIsFair, b
<1>7. QED
  BY <1>5, <1>6

(***************************************************************************)
(* A request is counted, and let in or not.                                *)
(***************************************************************************)
LEMMA RequestingKeepsLimit ==
  ASSUME NEW c \in CounterEntries, NEW s, clock \in Nat, refreshing \in BOOLEAN,
         LimitIsKept(c, s, clock, refreshing), Bumped(c, RequestWindow).value <= MaxCount
  PROVE  LET b == Bumped(c, RequestWindow) IN
         LimitIsKept(b, IF MayAttempt(b) THEN Append(s, clock) ELSE s, clock, refreshing)
<1> DEFINE b == Bumped(c, RequestWindow)
           n == LetIn(c)
           e == EndOfCounter(c, RequestWindow, clock)
<1>0. RequestWindow \in Nat /\ RequestLimit \in Nat
  BY ChallengeAssumption
<1>1. /\ n \in Nat /\ e \in Nat /\ Value(c) \in Nat
  BY <1>0, CounterTypes
<1>2. /\ Past(s, clock) /\ e <= clock + RequestWindow
      /\ IF refreshing THEN CoversAll(n, e, s, RequestWindow)
         ELSE /\ CountsTheLast(n, e, s, RequestWindow)
              /\ LeavesFew(n, e, s, RequestWindow, RequestLimit)
  BY DEF LimitIsKept, EndsInTime
<1>3. /\ Value(b) = Value(c) + 1 /\ b.value = Value(c) + 1
      /\ EndsInTime(b, RequestWindow, clock)
      /\ EndOfCounter(b, RequestWindow, clock) = IF refreshing THEN clock + RequestWindow ELSE e
  BY <1>0, BumpedCounter DEF LimitIsKept
<1> HIDE DEF b, e
<1>4. LetIn(b) = IF MayAttempt(b) THEN n + 1 ELSE n
  BY <1>0, <1>1, <1>3 DEF LetIn, AtMost, MayAttempt
<1> HIDE DEF n
<1>5. CASE MayAttempt(b)
  <2>1. Past(Append(s, clock), clock)
    BY <1>2, AppendedNow
  <2>2. CASE refreshing
    <3>1. Len(s) <= n
      BY <1>2, <2>2 DEF CoversAll
    <3>2. CoversAll(n + 1, clock + RequestWindow, Append(s, clock), RequestWindow)
      BY <1>0, <1>1, <1>2, <3>1, AppendingCovers
    <3>3. QED
      BY <1>3, <1>4, <1>5, <2>1, <2>2, <3>2 DEF LimitIsKept, b
  <2>3. CASE ~refreshing
    <3>1. CountsTheLast(n + 1, e, Append(s, clock), RequestWindow)
      BY <1>0, <1>1, <1>2, <2>3, AppendingCounts
    <3>2. LeavesFew(n + 1, e, Append(s, clock), RequestWindow, RequestLimit)
      BY <1>0, <1>1, <1>2, <2>3, AppendingLeavesFew
    <3>3. QED
      BY <1>3, <1>4, <1>5, <2>1, <2>3, <3>1, <3>2 DEF LimitIsKept, b
  <2>4. QED
    BY <2>2, <2>3
<1>6. CASE ~MayAttempt(b)
  <2>1. CASE refreshing
    <3>1. Len(s) <= n
      BY <1>2, <2>1 DEF CoversAll
    <3>2. CoversAll(n, clock + RequestWindow, s, RequestWindow)
      BY <1>0, <1>1, <1>2, <3>1, AppendingCovers
    <3>3. QED
      BY <1>2, <1>3, <1>4, <1>6, <2>1, <3>2 DEF LimitIsKept, b
  <2>2. CASE ~refreshing
    BY <1>2, <1>3, <1>4, <1>6, <2>2 DEF LimitIsKept, b
  <2>3. QED
    BY <2>1, <2>2
<1>7. QED
  BY <1>5, <1>6 DEF b

(***************************************************************************)
(* A counter that is not there is fair to no violation at all.             *)
(***************************************************************************)
LEMMA NothingCounted ==
  ASSUME NEW now \in Nat, NEW refreshed \in BOOLEAN
  PROVE  /\ CountIsFair(None, << >>, now, refreshed)
         /\ LimitIsKept(None, << >>, now, refreshed)
<1>1. << >> \in Seq(Nat) /\ Len(<< >>) = 0
  BY EmptySeq
<1>2. Past(<< >>, now)
  BY <1>1 DEF Past, InOrder
<1>3. Value(None) = 0 /\ LetIn(None) = 0
  BY ChallengeAssumption DEF Value, LetIn, AtMost
<1>4. /\ EndOfCounter(None, BanWindow, now) = now + BanWindow
      /\ EndOfCounter(None, RequestWindow, now) = now + RequestWindow
      /\ BanWindow \in Nat /\ RequestWindow \in Nat /\ RequestLimit \in Nat
  BY BanAssumption, ChallengeAssumption DEF EndOfCounter
<1>5. QED
  BY <1>1, <1>2, <1>3, <1>4
     DEF CountIsFair, LimitIsKept, EndsInTime, CoversAll, CountsTheLast, LeavesFew

(***************************************************************************)
(* Time passes: what is over goes, with the times that it stood for.       *)
(***************************************************************************)
Left(c, t) == IF c # None /\ c.expires <= t THEN None ELSE c

LEMMA AgeingIsFair ==
  ASSUME NEW c \in CounterEntries, NEW s, NEW now \in Nat, NEW refreshed \in BOOLEAN,
         CountIsFair(c, s, now, refreshed)
  PROVE  CountIsFair(Left(c, now + 1), Within(s, BanWindow, now + 1), now + 1, refreshed)
<1> DEFINE t == now + 1
           w == Within(s, BanWindow, t)
           e == EndOfCounter(c, BanWindow, now)
           n == Value(c)
<1>0. BanWindow \in Nat /\ t \in Nat /\ now <= t
  BY BanAssumption
<1>1. /\ n \in Nat /\ e \in Nat /\ (c # None => e = c.expires) /\ (c = None => n = 0)
  BY <1>0, CounterTypes DEF EndOfCounter, Value
<1>2. /\ Past(s, now) /\ e <= now + BanWindow
      /\ IF refreshed THEN CoversAll(n, e, s, BanWindow) ELSE CountsTheLast(n, e, s, BanWindow)
  BY DEF CountIsFair, EndsInTime
<1>3. Past(w, t) /\ Len(w) \in Nat
  BY <1>0, <1>2, ForgottenByNow
<1>4. CASE c # None /\ ~(e <= t)
  <2>1. Left(c, t) = c /\ EndOfCounter(c, BanWindow, t) = e
    BY <1>1, <1>4 DEF Left, EndOfCounter
  <2>2. e <= t + BanWindow
    BY <1>0, <1>1, <1>2
  <2> HIDE DEF t, w, e, n
  <2>3. refreshed => CoversAll(n, e, w, BanWindow)
    BY <1>0, <1>1, <1>2, ForgettingCovers DEF w
  <2>4. ~refreshed => CountsTheLast(n, e, w, BanWindow)
    BY <1>0, <1>1, <1>2, <1>4, ForgettingCounts DEF w
  <2>5. CountIsFair(Left(c, t), w, t, refreshed)
    BY <1>3, <2>1, <2>2, <2>3, <2>4 DEF CountIsFair, EndsInTime, n
  <2>6. QED
    BY <2>5 DEF w, t
<1>5. CASE c = None \/ e <= t
  <2>1. Left(c, t) = None
    BY <1>1, <1>5 DEF Left
  <2>2. Value(None) = 0 /\ EndOfCounter(None, BanWindow, t) = t + BanWindow
    BY DEF Value, EndOfCounter
  <2> HIDE DEF t, w, e, n
  <2>3. refreshed => Len(w) = 0
    <3>1. refreshed => CoversAll(n, e, w, BanWindow) /\ (e <= t => Len(w) = 0)
      BY <1>0, <1>1, <1>2, ForgettingCovers DEF w
    <3>2. QED
      BY <1>1, <1>3, <1>5, <3>1 DEF CoversAll
  <2>4. refreshed => CoversAll(0, t + BanWindow, w, BanWindow)
    BY <2>3 DEF CoversAll
  <2>5. CountsTheLast(0, t + BanWindow, w, BanWindow)
    BY <1>3 DEF CountsTheLast
  <2>6. CountIsFair(Left(c, t), w, t, refreshed)
    BY <1>0, <1>3, <2>1, <2>2, <2>4, <2>5 DEF CountIsFair, EndsInTime
  <2>7. QED
    BY <2>6 DEF w, t
<1>6. QED
  BY <1>4, <1>5

LEMMA AgeingKeepsLimit ==
  ASSUME NEW c \in CounterEntries, NEW s, NEW now \in Nat, NEW refreshed \in BOOLEAN,
         LimitIsKept(c, s, now, refreshed)
  PROVE  LimitIsKept(Left(c, now + 1), Within(s, RequestWindow, now + 1), now + 1, refreshed)
<1> DEFINE t == now + 1
           w == Within(s, RequestWindow, t)
           e == EndOfCounter(c, RequestWindow, now)
           n == LetIn(c)
<1>0. RequestWindow \in Nat /\ RequestLimit \in Nat /\ t \in Nat /\ now <= t
  BY ChallengeAssumption
<1>1. /\ n \in Nat /\ e \in Nat /\ (c # None => e = c.expires) /\ (c = None => n = 0)
      /\ n <= RequestLimit /\ (c = None => e = now + RequestWindow)
  BY <1>0, CounterTypes DEF EndOfCounter, Value
<1>2. /\ Past(s, now) /\ e <= now + RequestWindow
      /\ IF refreshed THEN CoversAll(n, e, s, RequestWindow)
         ELSE /\ CountsTheLast(n, e, s, RequestWindow)
              /\ LeavesFew(n, e, s, RequestWindow, RequestLimit)
  BY DEF LimitIsKept, EndsInTime
<1>3. /\ Past(w, t) /\ Len(w) \in Nat /\ Len(s) \in Nat /\ Len(w) <= Len(s)
  BY <1>0, <1>2, ForgottenByNow
<1>4. CASE c # None /\ ~(e <= t)
  <2>1. Left(c, t) = c /\ EndOfCounter(c, RequestWindow, t) = e
    BY <1>1, <1>4 DEF Left, EndOfCounter
  <2>2. e <= t + RequestWindow
    BY <1>0, <1>1, <1>2
  <2> HIDE DEF t, w, e, n
  <2>3. refreshed => CoversAll(n, e, w, RequestWindow)
    BY <1>0, <1>1, <1>2, ForgettingCovers DEF w
  <2>4. ~refreshed => CountsTheLast(n, e, w, RequestWindow)
    BY <1>0, <1>1, <1>2, <1>4, ForgettingCounts DEF w
  <2>5. ~refreshed => LeavesFew(n, e, w, RequestWindow, RequestLimit)
    BY <1>0, <1>1, <1>2, ForgettingLeavesFew DEF w
  <2>6. LimitIsKept(Left(c, t), w, t, refreshed)
    BY <1>3, <2>1, <2>2, <2>3, <2>4, <2>5 DEF LimitIsKept, EndsInTime, n
  <2>7. QED
    BY <2>6 DEF w, t
<1>5. CASE c = None \/ e <= t
  <2>1. Left(c, t) = None
    BY <1>1, <1>5 DEF Left
  <2>2. LetIn(None) = 0 /\ EndOfCounter(None, RequestWindow, t) = t + RequestWindow
    BY <1>0 DEF LetIn, AtMost, Value, EndOfCounter
  <2> HIDE DEF t, w, e, n
  <2>3. ASSUME refreshed PROVE Len(w) = 0
    <3>1. CoversAll(n, e, w, RequestWindow) /\ (e <= t => Len(w) = 0)
      BY <1>0, <1>1, <1>2, <2>3, ForgettingCovers DEF w
    <3>2. QED
      BY <1>1, <1>3, <1>5, <3>1 DEF CoversAll
  <2>4. refreshed => CoversAll(0, t + RequestWindow, w, RequestWindow)
    BY <2>3 DEF CoversAll
  <2>5. CountsTheLast(0, t + RequestWindow, w, RequestWindow)
    BY <1>3 DEF CountsTheLast
  <2>6. ASSUME ~refreshed PROVE Len(w) <= RequestLimit
    <3>1. LeavesFew(n, e, w, RequestWindow, RequestLimit) /\ (e <= t => Len(w) <= n)
      BY <1>0, <1>1, <1>2, <2>6, ForgettingLeavesFew DEF w
    <3>2. QED
      BY <1>0, <1>1, <1>3, <1>5, <3>1 DEF LeavesFew
  <2>7. \A i \in 1..Len(w) : FromEnd(w, i) \in Nat /\ FromEnd(w, i) <= t
    BY <1>3, TimesAreNumbers DEF Past
  <2>8. ~refreshed => LeavesFew(0, t + RequestWindow, w, RequestWindow, RequestLimit)
    BY <1>0, <2>6, <2>7 DEF LeavesFew
  <2>9. LimitIsKept(Left(c, t), w, t, refreshed)
    BY <1>0, <1>3, <2>1, <2>2, <2>4, <2>5, <2>8 DEF LimitIsKept, EndsInTime
  <2>10. QED
    BY <2>9 DEF w, t
<1>6. QED
  BY <1>4, <1>5

-----------------------------------------------------------------------------
(* The calls in progress *)

BanCalls == {"look", "drop", "set", "clear"}

TokenCalls == {"claim", "provider", "release", "failed", "escalate"}

Labels == {"idle", "raised"} \union BanCalls \union TokenCalls

BanJobs == [key : Keys, level : 0..Top, raced : BOOLEAN]

TokenJobs == [key : Keys, token : Tokens, until : Nat]

\* What a call is about fits what it does next; it writes no ban of level 0.
Suits(l, j) ==
  /\ l \in {"idle", "raised"} => j = None
  /\ l \in BanCalls => j \in BanJobs
  /\ l = "set" => j.level # 0
  /\ l \in TokenCalls => j \in TokenJobs

CallTypes ==
  /\ pc \in [Procs -> Labels]
  /\ DOMAIN job = Procs
  /\ \A p \in Procs : Suits(pc[p], job[p])

LEMMA CallMoves ==
  ASSUME CallTypes, NEW p \in Procs, NEW l \in Labels, Goto(p, l),
         DOMAIN job' = Procs, Suits(l, job'[p]),
         \A q \in Procs \ {p} :
           \/ job'[q] = job[q]
           \/ /\ pc[q] \in {"drop", "set"} /\ job'[q] \in BanJobs
              /\ job'[q].level = job[q].level
  PROVE  CallTypes'
<1>1. /\ pc' \in [Procs -> Labels] /\ pc'[p] = l
      /\ \A q \in Procs \ {p} : pc'[q] = pc[q]
  BY DEF CallTypes, Goto
<1>2. ASSUME NEW q \in Procs PROVE Suits(pc'[q], job'[q])
  <2>1. CASE q = p
    BY <1>1, <2>1
  <2>2. CASE q # p /\ job'[q] = job[q]
    BY <1>1, <2>2 DEF CallTypes
  <2>3. CASE /\ q # p /\ pc[q] \in {"drop", "set"} /\ job'[q] \in BanJobs
             /\ job'[q].level = job[q].level
    <3>1. Suits(pc[q], job[q]) /\ pc'[q] = pc[q]
      BY <1>1, <2>3 DEF CallTypes
    <3>2. QED
      BY <2>3, <3>1 DEF Suits, TokenCalls
  <2>4. QED
    BY <2>1, <2>2, <2>3
<1>3. QED
  BY <1>1, <1>2 DEF CallTypes

LEMMA CallReturns ==
  ASSUME CallTypes, NEW p \in Procs, Done(p)
  PROVE  CallTypes'
<1>1. /\ Goto(p, "idle") /\ "idle" \in Labels /\ Suits("idle", None)
      /\ DOMAIN job' = Procs /\ job'[p] = None
      /\ \A q \in Procs \ {p} : job'[q] = job[q]
  BY DEF Done, Remember, CallTypes, Labels, Suits, BanCalls, TokenCalls
<1>2. QED
  BY <1>1, CallMoves

LEMMA CallGoesOn ==
  ASSUME CallTypes, NEW p \in Procs, NEW l \in Labels, NEW j, Suits(l, j),
         Goto(p, l), Remember(p, j) \/ (job' = job /\ j = job[p])
  PROVE  CallTypes'
<1>1. /\ DOMAIN job' = Procs /\ job'[p] = j
      /\ \A q \in Procs \ {p} : job'[q] = job[q]
  BY DEF Remember, CallTypes
<1>2. QED
  BY <1>1, CallMoves

LEMMA CallWrites ==
  ASSUME CallTypes, NEW p \in Procs, NEW l \in Labels, NEW k, NEW r, NEW j, Suits(l, j),
         Goto(p, l), WriteRecord(p, k, r, j)
  PROVE  CallTypes'
<1>1. DOMAIN job' = Procs /\ job'[p] = j
  BY DEF WriteRecord
<1>2. ASSUME NEW q \in Procs \ {p}
      PROVE  \/ job'[q] = job[q]
             \/ /\ pc[q] \in {"drop", "set"} /\ job'[q] \in BanJobs
                /\ job'[q].level = job[q].level
  <2>1. CASE Writing(q, k)
    <3>1. pc[q] \in {"drop", "set"} /\ job[q] \in BanJobs
      BY <2>1 DEF Writing, CallTypes, Suits, BanCalls
    <3>2. job'[q] = [job[q] EXCEPT !.raced = TRUE]
      BY <2>1 DEF WriteRecord
    <3>3. QED
      BY <3>1, <3>2 DEF BanJobs
  <2>2. CASE ~Writing(q, k)
    BY <2>2 DEF WriteRecord
  <2>3. QED
    BY <2>1, <2>2
<1>3. QED
  BY <1>1, <1>2, CallMoves

Records == [level : 1..Top, expires : Nat \union {Forever}, kept : Nat \union {Forever}]

RecordTypes == record \in [Keys -> Records \union {None}]

LEMMA RecordProperties ==
  ASSUME RecordTypes, NEW k \in Keys
  PROVE  /\ Strength(k) \in 0..Top /\ LevelFound(k) \in 0..Top
         /\ ~Lapsed(k) => LevelFound(k) = Strength(k)
         /\ Lapsed(k) => Strength(k) = 0
<1>1. Top \in Nat
  BY EscalationAssumption
<1>2. record[k] # None => record[k].level \in 1..Top
  BY DEF RecordTypes, Records
<1>3. QED
  BY <1>1, <1>2 DEF Strength, LevelFound, Lapsed

(***************************************************************************)
(* Every call is about something that suits what it does.                  *)
(***************************************************************************)
LEMMA BanCallSuits ==
  ASSUME CallTypes, RecordTypes, counter \in [Keys -> CounterEntries], clock \in Nat,
         refreshing \in BOOLEAN, NEW p \in Procs, SharedBanStep(p)
  PROVE  CallTypes'
<1>0. /\ Suits(pc[p], job[p])
      /\ {"idle", "raised", "look", "drop", "set", "clear"} \subseteq Labels
      /\ Top \in Nat
  BY EscalationAssumption DEF CallTypes, Labels, BanCalls
<1>1. CASE LookAtRecord(p)
  <2>1. pc[p] = "look" /\ job[p] \in BanJobs
    BY <1>0, <1>1 DEF LookAtRecord, Suits, BanCalls
  <2>2. CASE Done(p)
    BY <2>2, CallReturns
  <2>3. CASE Goto(p, "drop") /\ job' = job
    <3>1. Suits("drop", job[p])
      BY <2>1 DEF Suits, BanCalls, TokenCalls
    <3>2. QED
      BY <1>0, <2>3, <3>1, CallGoesOn
  <2>4. CASE Goto(p, "set") /\ job' = job /\ job[p].level > LevelFound(job[p].key)
    <3>1. LevelFound(job[p].key) \in 0..Top
      BY <2>1, RecordProperties DEF BanJobs
    <3>2. Suits("set", job[p])
      BY <1>0, <2>1, <2>4, <3>1 DEF Suits, BanCalls, TokenCalls, BanJobs
    <3>3. QED
      BY <1>0, <2>4, <3>2, CallGoesOn
  <2>5. QED
    BY <1>1, <2>2, <2>3, <2>4 DEF LookAtRecord
<1>2. CASE DropRecord(p)
  <2>1. pc[p] = "drop" /\ job[p] \in BanJobs
    BY <1>0, <1>2 DEF DropRecord, Suits, BanCalls
  <2>2. CASE Goto(p, "idle") /\ WriteRecord(p, job[p].key, None, None)
    <3>1. Suits("idle", None)
      BY DEF Suits, BanCalls, TokenCalls
    <3>2. QED
      BY <1>0, <2>2, <3>1, CallWrites
  <2>3. CASE /\ Goto(p, "set") /\ job[p].level # 0
             /\ WriteRecord(p, job[p].key, None, Job(job[p].key, job[p].level))
    <3>1. Suits("set", Job(job[p].key, job[p].level))
      BY <2>1, <2>3 DEF Suits, BanCalls, TokenCalls, Job, BanJobs
    <3>2. QED
      BY <1>0, <2>3, <3>1, CallWrites
  <2>4. QED
    BY <1>2, <2>2, <2>3 DEF DropRecord
<1>3. CASE SetRecord(p)
  <2>1. Suits("idle", None)
    BY DEF Suits, BanCalls, TokenCalls
  <2>2. PICK r : Goto(p, "idle") /\ WriteRecord(p, job[p].key, r, None)
    BY <1>3 DEF SetRecord
  <2>3. QED
    BY <1>0, <2>1, <2>2, CallWrites
<1>4. CASE ClearCounter(p)
  BY <1>4, CallReturns DEF ClearCounter
<1>5. ASSUME NEW k \in Keys, CountViolation(p, k) PROVE CallTypes'
  <2> DEFINE c == Bumped(counter[k], BanWindow)
  <2>0. c.value \in Nat
    <3>1. counter[k] # None => counter[k].value \in Nat
      BY ChallengeAssumption DEF CounterEntries, Counters
    <3>2. QED
      BY <3>1 DEF Bumped
  <2>1. CASE UNCHANGED <<pc, job>>
    BY <2>1 DEF CallTypes
  <2>2. CASE c.value >= Threshold /\ Goto(p, "look") /\ Remember(p, Job(k, Level(c.value)))
    <3>1. Level(c.value) \in 1..Top
      BY <2>0, <2>2, LevelInRange
    <3>2. Suits("look", Job(k, Level(c.value)))
      BY <1>0, <3>1 DEF Suits, BanCalls, TokenCalls, Job, BanJobs
    <3>3. QED
      BY <1>0, <2>2, <3>2, CallGoesOn
  <2>3. c.value < Threshold \/ c.value >= Threshold
    BY <2>0, BanAssumption
  <2>4. QED
    BY <1>5, <2>1, <2>2, <2>3 DEF CountViolation
<1>6. ASSUME NEW k \in Keys, CheckBan(p, k) PROVE CallTypes'
  <2>1. Suits("look", Job(k, 0))
    BY <1>0 DEF Suits, BanCalls, TokenCalls, Job, BanJobs
  <2>2. QED
    BY <1>0, <1>6, <2>1, CallGoesOn DEF CheckBan
<1>7. ASSUME NEW k \in Keys, ClearRecord(p, k) PROVE CallTypes'
  <2>1. Suits("clear", Job(k, 0))
    BY <1>0 DEF Suits, BanCalls, TokenCalls, Job, BanJobs
  <2>2. QED
    BY <1>0, <1>7, <2>1, CallWrites DEF ClearRecord
<1>8. CASE Abandon(p)
  <2>1. Suits("raised", None)
    BY DEF Suits, BanCalls, TokenCalls
  <2>2. QED
    BY <1>0, <1>8, <2>1, CallGoesOn DEF Abandon
<1>9. CASE Recover(p)
  <2>1. Suits("idle", job[p])
    BY <1>0, <1>9 DEF Suits, BanCalls, TokenCalls, Recover
  <2>2. QED
    BY <1>0, <1>9, <2>1, CallGoesOn DEF Recover
<1>10. QED
  BY <1>1, <1>2, <1>3, <1>4, <1>5, <1>6, <1>7, <1>8, <1>9 DEF SharedBanStep

LEMMA AttemptSuits ==
  ASSUME CallTypes, clock \in Nat, NEW p \in Procs,
         \/ ClaimToken(p) \/ ReleaseToken(p) \/ RecordFailure(p) \/ Escalate(p) \/ Cancel(p)
         \/ \E a \in Answers \union {NoAnswer, TooLong} : Respond(p, a)
         \/ \E k \in Keys, t \in Tokens \union {NoToken}, s \in BOOLEAN : Submit(p, k, t, s)
  PROVE  CallTypes'
<1>0. /\ Suits(pc[p], job[p])
      /\ {"idle", "claim", "provider", "release", "failed", "escalate"} \subseteq Labels
  BY DEF CallTypes, Labels, TokenCalls
<1>1. CASE Done(p)
  BY <1>1, CallReturns
<1>2. CASE UNCHANGED <<pc, job>>
  BY <1>2 DEF CallTypes
<1>3. CASE ClaimToken(p) /\ ~Done(p)
  <2>1. /\ job[p] \in TokenJobs /\ Goto(p, "provider")
        /\ job' = [job EXCEPT ![p].until = clock + TokenTTL]
    BY <1>0, <1>3 DEF ClaimToken, Suits, TokenCalls
  <2>2. clock + TokenTTL \in Nat
    BY ChallengeAssumption
  <2>3. /\ DOMAIN job' = Procs /\ job'[p] \in TokenJobs
        /\ \A q \in Procs \ {p} : job'[q] = job[q]
    BY <2>1, <2>2 DEF TokenJobs, CallTypes
  <2>4. Suits("provider", job'[p])
    BY <2>3 DEF Suits, BanCalls, TokenCalls
  <2>5. QED
    BY <1>0, <2>1, <2>3, <2>4, CallMoves
<1>4. ASSUME NEW l \in {"release", "failed", "escalate"}, pc[p] \in {"provider", "failed"},
             Goto(p, l), UNCHANGED job
      PROVE  CallTypes'
  <2>1. Suits(l, job[p])
    BY <1>0, <1>4 DEF Suits, BanCalls, TokenCalls
  <2>2. QED
    BY <1>0, <1>4, <2>1, CallGoesOn
<1>5. ASSUME NEW k \in Keys, NEW t \in Tokens, Goto(p, "claim"),
             Remember(p, [key |-> k, token |-> t, until |-> 0])
      PROVE  CallTypes'
  <2>1. Suits("claim", [key |-> k, token |-> t, until |-> 0])
    BY DEF Suits, BanCalls, TokenCalls, TokenJobs
  <2>2. QED
    BY <1>0, <1>5, <2>1, CallGoesOn
<1>6. CASE ClaimToken(p)
  BY <1>1, <1>3, <1>6
<1>7. CASE ReleaseToken(p) \/ RecordFailure(p) \/ Escalate(p) \/ Cancel(p)
  BY <1>1, <1>4, <1>7 DEF ReleaseToken, RecordFailure, Escalate, Cancel
<1>8. ASSUME NEW a, Respond(p, a) PROVE CallTypes'
  <2>1. pc[p] = "provider"
    BY <1>8 DEF Respond
  <2>2. \/ Done(p)
        \/ Goto(p, "release") /\ UNCHANGED job
        \/ Goto(p, "failed") /\ UNCHANGED job
    BY <1>8 DEF Respond
  <2>3. QED
    BY <1>1, <1>4, <2>1, <2>2
<1>9. ASSUME NEW k \in Keys, NEW t \in Tokens \union {NoToken}, NEW s, Submit(p, k, t, s)
      PROVE  CallTypes'
  BY <1>2, <1>5, <1>9 DEF Submit
<1>10. QED
  BY <1>6, <1>7, <1>8, <1>9

-----------------------------------------------------------------------------
(* Bans on the storage *)

\* Whoever will write a record that nobody has written since it looked knows
\* what it does: it deletes what is over, or writes a stronger ban.
Knows(p, k) ==
  Writing(p, k) /\ ~job[p].raced =>
    IF pc[p] = "drop" THEN Strength(k) = 0 ELSE Strength(k) < job[p].level

WritersKnow == \A p \in Procs, k \in Keys : Knows(p, k)

\* OnlyARaceWeakens, of a key
WeakenedByARace(k) ==
  (Strength(k)' < Strength(k) /\ clock' = clock) =>
    \E p \in Procs : \/ pc'[p] = "clear" /\ pc[p] = "idle"
                     \/ Writing(p, k) /\ job[p].raced /\ pc'[p] # pc[p]

\* TheThresholdBans, of a call and a key
ReturnsWithABan(p, k) ==
  (pc[p] \in {"look", "set"} /\ pc'[p] = "idle" /\ job[p].key = k) =>
    Strength(k)' >= job[p].level

BansOnTheStorage ==
  /\ RecordTypes'
  /\ WritersKnow'
  /\ \A k \in Keys : WeakenedByARace(k)
  /\ \A p \in Procs, k \in Keys : ReturnsWithABan(p, k)

(***************************************************************************)
(* The records stay as they are while p takes a step; what it knows and    *)
(* returns with is up to it.                                               *)
(***************************************************************************)
LEMMA RecordsStay ==
  ASSUME RecordTypes, WritersKnow, CallTypes, NEW p \in Procs, NEW l, Goto(p, l),
         UNCHANGED <<record, clock>>,
         \A q \in Procs \ {p} : job'[q] = job[q],
         \A k \in Keys : Knows(p, k)' /\ ReturnsWithABan(p, k)
  PROVE  BansOnTheStorage
<1>1. /\ pc'[p] = l
      /\ \A q \in Procs \ {p} : pc'[q] = pc[q]
  BY DEF CallTypes, Goto
<1>2. \A k \in Keys : Strength(k)' = Strength(k)
  BY DEF Strength, Over
<1>3. \A q \in Procs \ {p}, k \in Keys : Knows(q, k)'
  BY <1>1, <1>2 DEF WritersKnow, Knows, Writing
<1>4. \A q \in Procs \ {p}, k \in Keys : ReturnsWithABan(q, k)
  BY <1>1 DEF ReturnsWithABan
<1>5. \A k \in Keys : Strength(k) \in 0..Top
  BY RecordProperties
<1>6. \A k \in Keys : WeakenedByARace(k)
  BY <1>2, <1>5 DEF WeakenedByARace
<1>7. QED
  BY <1>3, <1>4, <1>6 DEF BansOnTheStorage, RecordTypes, WritersKnow

(***************************************************************************)
(* So it is with a call that writes nothing and returns with nothing.      *)
(***************************************************************************)
LEMMA RecordsIgnored ==
  ASSUME RecordTypes, WritersKnow, CallTypes, NEW p \in Procs, NEW l, Goto(p, l),
         UNCHANGED <<record, clock>>,
         \A q \in Procs \ {p} : job'[q] = job[q],
         l \notin {"drop", "set"}, pc[p] \notin {"look", "set"}
  PROVE  BansOnTheStorage
<1>1. pc'[p] = l
  BY DEF CallTypes, Goto
<1>2. \A k \in Keys : Knows(p, k)' /\ ReturnsWithABan(p, k)
  BY <1>1 DEF Knows, Writing, ReturnsWithABan
<1>3. QED
  BY <1>2, RecordsStay

(***************************************************************************)
(* p writes the record of k: whoever else is about to write it is marked.  *)
(***************************************************************************)
LEMMA RecordWritten ==
  ASSUME RecordTypes, WritersKnow, CallTypes, NEW p \in Procs, NEW k \in Keys,
         NEW l, NEW r \in Records \union {None}, NEW j,
         Goto(p, l), WriteRecord(p, k, r, j), UNCHANGED clock,
         WeakenedByARace(k),
         \A i \in Keys : Knows(p, i)' /\ ReturnsWithABan(p, i)
  PROVE  BansOnTheStorage
<1>1. /\ pc'[p] = l
      /\ \A q \in Procs \ {p} : pc'[q] = pc[q]
  BY DEF CallTypes, Goto
<1>2. record' = [record EXCEPT ![k] = r] /\ RecordTypes'
  BY DEF WriteRecord, RecordTypes
<1>3. \A i \in Keys \ {k} : Strength(i)' = Strength(i)
  BY <1>2 DEF Strength, Over, RecordTypes
<1>4. \A i \in Keys : Strength(i) \in 0..Top
  BY RecordProperties
<1>5. \A i \in Keys \ {k} : WeakenedByARace(i)
  BY <1>3, <1>4 DEF WeakenedByARace
<1>6. \A q \in Procs \ {p}, i \in Keys : ReturnsWithABan(q, i)
  BY <1>1 DEF ReturnsWithABan
<1>7. ASSUME NEW q \in Procs \ {p}, NEW i \in Keys
      PROVE  Knows(q, i)'
  <2>1. CASE Writing(q, k)
    <3>1. job[q] \in BanJobs /\ job[q].key = k
      BY <2>1 DEF Writing, CallTypes, Suits, BanCalls
    <3>2. job'[q] = [job[q] EXCEPT !.raced = TRUE]
      BY <2>1 DEF WriteRecord
    <3>3. job'[q].raced
      BY <3>1, <3>2 DEF BanJobs
    <3>4. QED
      BY <3>3 DEF Knows
  <2>2. CASE ~Writing(q, k)
    <3>1. job'[q] = job[q]
      BY <2>2 DEF WriteRecord
    <3>2. CASE i = k
      BY <1>1, <2>2, <3>1, <3>2 DEF Knows, Writing
    <3>3. CASE i # k
      BY <1>1, <1>3, <3>1, <3>3 DEF Knows, Writing, WritersKnow
    <3>4. QED
      BY <3>2, <3>3
  <2>3. QED
    BY <2>1, <2>2
<1>8. QED
  BY <1>2, <1>5, <1>6, <1>7 DEF BansOnTheStorage, WritersKnow

LEMMA LookStep ==
  ASSUME RecordTypes, WritersKnow, CallTypes, NEW p \in Procs, LookAtRecord(p),
         UNCHANGED clock
  PROVE  BansOnTheStorage
<1>0. PICK k \in Keys :
        pc[p] = "look" /\ job[p] \in BanJobs /\ job[p].key = k /\ UNCHANGED record
  BY DEF LookAtRecord, CallTypes, Suits, BanCalls, BanJobs
<1>1. /\ Strength(k) \in 0..Top /\ LevelFound(k) \in 0..Top
      /\ ~Lapsed(k) => LevelFound(k) = Strength(k)
      /\ Lapsed(k) => Strength(k) = 0
      /\ Top \in Nat /\ job[p].level \in 0..Top
  BY <1>0, RecordProperties, EscalationAssumption DEF BanJobs
<1>2. Strength(k)' = Strength(k)
  BY <1>0 DEF Strength, Over
<1>3. ASSUME NEW i \in Keys, i # k, UNCHANGED job
      PROVE  Knows(p, i)' /\ ReturnsWithABan(p, i)
  BY <1>0, <1>3 DEF Knows, Writing, ReturnsWithABan
<1>4. CASE Lapsed(k) /\ Goto(p, "drop") /\ UNCHANGED job
  <2>1. pc'[p] = "drop"
    BY <1>4 DEF Goto, CallTypes
  <2>2. Knows(p, k)' /\ ReturnsWithABan(p, k)
    BY <1>1, <1>2, <1>4, <2>1 DEF Knows, ReturnsWithABan
  <2>3. \A i \in Keys : Knows(p, i)' /\ ReturnsWithABan(p, i)
    BY <1>3, <1>4, <2>2
  <2>4. QED
    BY <1>0, <1>4, <2>3, RecordsStay
<1>5. CASE ~Lapsed(k) /\ job[p].level > LevelFound(k) /\ Goto(p, "set") /\ UNCHANGED job
  <2>1. pc'[p] = "set"
    BY <1>5 DEF Goto, CallTypes
  <2>2. Knows(p, k)' /\ ReturnsWithABan(p, k)
    BY <1>1, <1>2, <1>5, <2>1 DEF Knows, ReturnsWithABan
  <2>3. \A i \in Keys : Knows(p, i)' /\ ReturnsWithABan(p, i)
    BY <1>3, <1>5, <2>2
  <2>4. QED
    BY <1>0, <1>5, <2>3, RecordsStay
<1>6. CASE ~Lapsed(k) /\ job[p].level <= LevelFound(k) /\ Done(p)
  <2>1. /\ Goto(p, "idle") /\ pc'[p] = "idle"
        /\ \A q \in Procs \ {p} : job'[q] = job[q]
    BY <1>6 DEF Done, Goto, Remember, CallTypes
  <2>2. \A i \in Keys : Knows(p, i)'
    BY <2>1 DEF Knows, Writing
  <2>3. Strength(k)' >= job[p].level
    BY <1>1, <1>2, <1>6
  <2>4. \A i \in Keys : ReturnsWithABan(p, i)
    BY <1>0, <2>3 DEF ReturnsWithABan
  <2>5. QED
    BY <1>0, <2>1, <2>2, <2>4, RecordsStay
<1>7. QED
  BY <1>0, <1>4, <1>5, <1>6 DEF LookAtRecord

LEMMA DropRecordStep ==
  ASSUME RecordTypes, WritersKnow, CallTypes, NEW p \in Procs, DropRecord(p),
         UNCHANGED clock
  PROVE  BansOnTheStorage
<1>0. PICK k \in Keys : pc[p] = "drop" /\ job[p] \in BanJobs /\ job[p].key = k
  BY DEF DropRecord, CallTypes, Suits, BanCalls, BanJobs
<1>1. PICK l \in {"idle", "set"}, j \in {None, Job(k, job[p].level)} :
        /\ Goto(p, l) /\ WriteRecord(p, k, None, j)
        /\ l = "set" => j = Job(k, job[p].level) /\ job[p].level # 0
  BY <1>0 DEF DropRecord
<1>2. pc'[p] = l /\ job'[p] = j
  BY <1>1 DEF Goto, WriteRecord, CallTypes
<1>3. record'[k] = None
  BY <1>0, <1>1 DEF WriteRecord, RecordTypes
<1>4. Strength(k)' = 0
  BY <1>3 DEF Strength
<1>5. Strength(k) \in 0..Top /\ Top \in Nat
  BY <1>0, RecordProperties, EscalationAssumption
<1>6. WeakenedByARace(k)
  <2>1. SUFFICES ASSUME Strength(k)' < Strength(k)
                 PROVE  Writing(p, k) /\ job[p].raced /\ pc'[p] # pc[p]
    BY DEF WeakenedByARace
  <2>2. Writing(p, k)
    BY <1>0 DEF Writing
  <2>3. job[p].raced
    BY <1>0, <1>4, <1>5, <2>1, <2>2 DEF WritersKnow, Knows
  <2>4. QED
    BY <1>0, <1>2, <2>2, <2>3
<1>7. \A i \in Keys : ReturnsWithABan(p, i)
  BY <1>0 DEF ReturnsWithABan
<1>8. ASSUME NEW i \in Keys PROVE Knows(p, i)'
  <2>1. CASE l = "idle"
    BY <1>2, <2>1 DEF Knows, Writing
  <2>2. CASE l = "set"
    <3>1. job'[p].key = k /\ job'[p].level = job[p].level /\ job[p].level # 0
      BY <1>1, <1>2, <2>2 DEF Job
    <3>2. job[p].level \in 0..Top
      BY <1>0 DEF BanJobs
    <3>3. 0 < job'[p].level
      BY <1>5, <3>1, <3>2
    <3>4. QED
      BY <1>2, <1>4, <2>2, <3>1, <3>3 DEF Knows, Writing
  <2>3. QED
    BY <1>1, <2>1, <2>2
<1>9. QED
  BY <1>0, <1>1, <1>6, <1>7, <1>8, RecordWritten

LEMMA SetRecordStep ==
  ASSUME RecordTypes, WritersKnow, CallTypes, clock \in Nat, NEW p \in Procs, SetRecord(p),
         UNCHANGED clock
  PROVE  BansOnTheStorage
<1>0. PICK k \in Keys, level \in 0..Top :
        /\ pc[p] = "set" /\ job[p] \in BanJobs
        /\ job[p].key = k /\ job[p].level = level /\ level # 0
  BY DEF SetRecord, CallTypes, Suits, BanCalls, BanJobs
<1> DEFINE expires == Deadline(Escalation[level])
<1>1. /\ Top \in Nat /\ level \in 1..Top /\ Escalation[level] \in Nat
  BY <1>0, EscalationAssumption
<1>2. expires = Forever \/ (expires \in Nat /\ expires > clock)
  BY <1>1 DEF Deadline
<1> HIDE DEF expires
<1>3. PICK kept \in IF expires = Forever THEN {Forever} ELSE {expires, expires + 1} :
        WriteRecord(p, k, [level |-> level, expires |-> expires, kept |-> kept], None)
  BY <1>0 DEF SetRecord, expires
<1> DEFINE r == [level |-> level, expires |-> expires, kept |-> kept]
<1>4. r \in Records
  BY <1>1, <1>2 DEF Records
<1>5. r # None /\ r.level = level /\ r.expires = expires
  BY <1>4, ChallengeAssumption DEF Records
<1> HIDE DEF r
<1>6. Goto(p, "idle") /\ WriteRecord(p, k, r, None)
  BY <1>3 DEF SetRecord, r
<1>7. pc'[p] = "idle" /\ record'[k] = r
  BY <1>0, <1>6 DEF Goto, WriteRecord, CallTypes, RecordTypes
<1>8. Strength(k)' = level
  <2>1. ~(Over(record[k])')
    BY <1>2, <1>5, <1>7 DEF Over
  <2>2. QED
    BY <1>5, <1>7, <2>1 DEF Strength
<1>9. Strength(k) \in 0..Top
  BY <1>0, RecordProperties
<1>10. WeakenedByARace(k)
  <2>1. SUFFICES ASSUME Strength(k)' < Strength(k)
                 PROVE  Writing(p, k) /\ job[p].raced /\ pc'[p] # pc[p]
    BY DEF WeakenedByARace
  <2>2. Writing(p, k)
    BY <1>0 DEF Writing
  <2>3. job[p].raced
    BY <1>0, <1>1, <1>8, <1>9, <2>1, <2>2 DEF WritersKnow, Knows
  <2>4. QED
    BY <1>0, <1>7, <2>2, <2>3
<1>11. \A i \in Keys : Knows(p, i)'
  BY <1>7 DEF Knows, Writing
<1>12. \A i \in Keys : ReturnsWithABan(p, i)
  BY <1>0, <1>1, <1>8 DEF ReturnsWithABan
<1>13. QED
  BY <1>0, <1>4, <1>6, <1>10, <1>11, <1>12, RecordWritten

LEMMA ClearRecordStep ==
  ASSUME RecordTypes, WritersKnow, CallTypes, NEW p \in Procs, NEW k \in Keys,
         ClearRecord(p, k), UNCHANGED clock
  PROVE  BansOnTheStorage
<1>1. /\ pc[p] = "idle" /\ Goto(p, "clear")
      /\ WriteRecord(p, k, None, Job(k, 0))
  BY DEF ClearRecord
<1>2. pc'[p] = "clear"
  BY <1>1 DEF Goto, CallTypes
<1>3. /\ WeakenedByARace(k)
      /\ \A i \in Keys : Knows(p, i)' /\ ReturnsWithABan(p, i)
  BY <1>1, <1>2 DEF WeakenedByARace, Knows, Writing, ReturnsWithABan
<1>4. QED
  BY <1>1, <1>3, RecordWritten

(***************************************************************************)
(* A record that is there after a tick was there before; a ban may have    *)
(* run out, and none has become stronger.                                  *)
(***************************************************************************)
LEMMA RecordsAge ==
  ASSUME RecordTypes, WritersKnow, CallTypes, clock \in Nat, clock' = clock + 1, SharedBansAge
  PROVE  BansOnTheStorage
<1>1. /\ UNCHANGED <<pc, job>>
      /\ \A k \in Keys : record'[k] = record[k] \/ record'[k] = None
      /\ RecordTypes'
  BY DEF SharedBansAge, RecordTypes
<1>2. ASSUME NEW k \in Keys
      PROVE  Strength(k)' = Strength(k) \/ Strength(k)' = 0
  <2>1. CASE record'[k] = None
    BY <2>1 DEF Strength
  <2>2. CASE record'[k] = record[k] /\ record[k] # None
    <3>1. record[k].expires \in Nat \union {Forever}
      BY <2>2 DEF RecordTypes, Records
    <3>2. Over(record[k]) => Over(record[k])'
      BY <2>2, <3>1, BanAssumption DEF Over
    <3>3. QED
      BY <2>2, <3>2 DEF Strength
  <2>3. QED
    BY <1>1, <2>1, <2>2
<1>3. ASSUME NEW p \in Procs, NEW k \in Keys PROVE Knows(p, k)'
  <2>1. SUFFICES ASSUME Writing(p, k), ~job[p].raced
                 PROVE  IF pc[p] = "drop" THEN Strength(k)' = 0
                        ELSE Strength(k)' < job[p].level
    BY <1>1 DEF Knows, Writing
  <2>2. Knows(p, k) /\ Suits(pc[p], job[p]) /\ Strength(k) \in 0..Top /\ Top \in Nat
    BY RecordProperties, EscalationAssumption DEF WritersKnow, CallTypes
  <2>3. pc[p] # "drop" => job[p].level \in 0..Top
    BY <2>1, <2>2 DEF Writing, Suits, BanCalls, BanJobs
  <2>4. QED
    BY <1>2, <2>1, <2>2, <2>3 DEF Knows
<1>4. \A k \in Keys : WeakenedByARace(k)
  BY DEF WeakenedByARace
<1>5. \A p \in Procs, k \in Keys : ReturnsWithABan(p, k)
  BY <1>1 DEF ReturnsWithABan
<1>6. QED
  BY <1>1, <1>3, <1>4, <1>5 DEF BansOnTheStorage, WritersKnow

-----------------------------------------------------------------------------
(* All of it together *)

\* What the other entries on the storage, the cookies and histories are.
EntryTypes ==
  /\ claims \in [Tokens -> Nat \union {None}]
  /\ failures \in [Keys -> CounterEntries]
  /\ passes \in [Keys -> Nat \union {None}]
  /\ lastUse \in [Tokens -> Nat \union {None}]
  /\ replayed \in [Tokens -> BOOLEAN]
  /\ outlived \in [Tokens -> BOOLEAN]

OffenceTypes == offences \in [Keys -> Seq(Nat)]

FlowInv ==
  /\ clock \in 0..MaxClock
  /\ BanInv /\ OffenceTypes
  /\ RecordTypes /\ WritersKnow
  /\ CallTypes
  /\ CountersInv
  /\ EntryTypes

\* What a step keeps, and what it does to the bans on the storage.
FlowGoesOn == FlowInv' /\ BansOnTheStorage

(***************************************************************************)
(* Nothing is counted by a step that leaves the counters alone.            *)
(***************************************************************************)
LEMMA CountersStay ==
  ASSUME CountersInv, UNCHANGED <<clock, refreshing, counter, requests, times, admitted>>
  PROVE  CountersInv'
BY DEF CountersInv

LEMMA BansStay ==
  ASSUME BanInv, OffenceTypes, UNCHANGED <<clock, banVars>>
  PROVE  BanInv' /\ OffenceTypes'
BY DEF banVars, BanInv, BanTypes, BansEndInReach, EndIsInReach, OffenceTypes

(***************************************************************************)
(* The calls of the ban manager.                                           *)
(***************************************************************************)
LEMMA BanCallsCount ==
  ASSUME CountersInv, CallTypes, NEW p \in Procs, SharedBanStep(p),
         UNCHANGED <<clock, requests, admitted>>
  PROVE  CountersInv'
<1>1. CASE \/ LookAtRecord(p) \/ DropRecord(p) \/ SetRecord(p) \/ Abandon(p) \/ Recover(p)
           \/ \E k \in Keys : CheckBan(p, k) \/ ClearRecord(p, k)
  BY <1>1, CountersStay DEF LookAtRecord, DropRecord, SetRecord, Abandon, Recover, CheckBan, ClearRecord
<1>2. CASE ClearCounter(p)
  <2>1. PICK k \in Keys : pc[p] = "clear" /\ k = job[p].key
    BY <1>2 DEF ClearCounter, CallTypes, Suits, BanCalls, BanJobs
  <2>2. /\ counter' = [counter EXCEPT ![k] = None]
        /\ times' = [times EXCEPT ![k] = << >>]
        /\ refreshing' = refreshing
    BY <1>2, <2>1 DEF ClearCounter
  <2>3. CountIsFair(None, << >>, clock, refreshing)
    BY NothingCounted DEF CountersInv
  <2>4. counter' \in [Keys -> CounterEntries]
    BY <2>2 DEF CountersInv, CounterEntries
  <2>5. \A i \in Keys : CountIsFair(counter'[i], times'[i], clock, refreshing)
    BY <2>2, <2>3 DEF CountersInv
  <2>6. QED
    BY <2>2, <2>4, <2>5 DEF CountersInv
<1>3. ASSUME NEW k \in Keys, CountViolation(p, k) PROVE CountersInv'
  <2> DEFINE c == Bumped(counter[k], BanWindow)
  <2>1. /\ c.value <= MaxCount /\ counter' = [counter EXCEPT ![k] = c]
        /\ times' = [times EXCEPT ![k] = Append(@, clock)]
        /\ refreshing' = refreshing
    BY <1>3 DEF CountViolation
  <2>2. CountIsFair(c, Append(times[k], clock), clock, refreshing)
    BY <2>1, CountingIsFair DEF CountersInv
  <2>3. c \in CounterEntries
    <3>1. EndsInTime(counter[k], BanWindow, clock)
      BY DEF CountersInv, CountIsFair
    <3>2. QED
      BY <2>1, <3>1, BumpedCounter, BanAssumption DEF CountersInv
  <2> HIDE DEF c
  <2>4. counter' \in [Keys -> CounterEntries]
    BY <2>1, <2>3 DEF CountersInv
  <2>5. \A i \in Keys : CountIsFair(counter'[i], times'[i], clock, refreshing)
    BY <2>1, <2>2 DEF CountersInv
  <2>6. QED
    BY <2>1, <2>4, <2>5 DEF CountersInv
<1>4. QED
  BY <1>1, <1>2, <1>3 DEF SharedBanStep

LEMMA BanCallsOnTheStorage ==
  ASSUME FlowInv, NEW p \in Procs, SharedBanStep(p), UNCHANGED clock
  PROVE  BansOnTheStorage
<1>0. RecordTypes /\ WritersKnow /\ CallTypes /\ clock \in Nat
  BY DEF FlowInv, CountersInv
<1>1. CASE LookAtRecord(p)
  BY <1>0, <1>1, LookStep
<1>2. CASE DropRecord(p)
  BY <1>0, <1>2, DropRecordStep
<1>3. CASE SetRecord(p)
  BY <1>0, <1>3, SetRecordStep
<1>4. ASSUME NEW k \in Keys, ClearRecord(p, k) PROVE BansOnTheStorage
  BY <1>0, <1>4, ClearRecordStep
<1>5. ASSUME NEW l \in {"idle", "look"}, Goto(p, l) \/ (UNCHANGED pc /\ l = pc[p]),
             UNCHANGED record, \A q \in Procs \ {p} : job'[q] = job[q],
             pc[p] \in {"idle", "clear", "raised"}
      PROVE  BansOnTheStorage
  <2>1. Goto(p, l)
    BY <1>0, <1>5 DEF Goto, CallTypes
  <2>2. QED
    BY <1>0, <1>5, <2>1, RecordsIgnored
<1>6. CASE ClearCounter(p)
  <2>1. /\ pc[p] = "clear" /\ Goto(p, "idle") /\ UNCHANGED record
        /\ \A q \in Procs \ {p} : job'[q] = job[q]
    BY <1>0, <1>6 DEF ClearCounter, Done, Remember, CallTypes
  <2>2. QED
    BY <1>5, <2>1
<1>7. ASSUME NEW k \in Keys, CountViolation(p, k) \/ CheckBan(p, k) PROVE BansOnTheStorage
  <2>1. pc[p] = "idle" /\ UNCHANGED record
    BY <1>7 DEF CountViolation, CheckBan
  <2>2. \/ UNCHANGED <<pc, job>>
        \/ Goto(p, "look") /\ \E j : Remember(p, j)
    BY <1>7 DEF CountViolation, CheckBan
  <2>3. \A q \in Procs \ {p} : job'[q] = job[q]
    BY <1>0, <2>2 DEF Remember, CallTypes
  <2>4. QED
    BY <1>5, <2>1, <2>2, <2>3
<1>8. CASE Abandon(p)
  <2>1. /\ Goto(p, "raised") /\ UNCHANGED record
        /\ \A q \in Procs \ {p} : job'[q] = job[q]
    BY <1>0, <1>8 DEF Abandon, Remember, CallTypes
  <2>2. pc'[p] = "raised"
    BY <1>0, <2>1 DEF Goto, CallTypes
  <2>3. \A k \in Keys : Knows(p, k)' /\ ReturnsWithABan(p, k)
    BY <2>2 DEF Knows, Writing, ReturnsWithABan
  <2>4. QED
    BY <1>0, <2>1, <2>3, RecordsStay
<1>9. CASE Recover(p)
  <2>1. /\ pc[p] = "raised" /\ Goto(p, "idle") /\ UNCHANGED record
        /\ \A q \in Procs \ {p} : job'[q] = job[q]
    BY <1>9 DEF Recover
  <2>2. QED
    BY <1>5, <2>1
<1>10. QED
  BY <1>1, <1>2, <1>3, <1>4, <1>6, <1>7, <1>8, <1>9 DEF SharedBanStep

LEMMA BanStepFlows ==
  ASSUME FlowInv, NEW p \in Procs, SharedBanStep(p), UNCHANGED <<clock, banVars, challengeVars>>
  PROVE  FlowGoesOn
<1>1. CallTypes'
  BY BanCallSuits DEF FlowInv, CountersInv
<1>2. CountersInv'
  BY BanCallsCount DEF FlowInv, challengeVars
<1>3. BansOnTheStorage
  BY BanCallsOnTheStorage
<1>4. BanInv' /\ OffenceTypes'
  BY BansStay DEF FlowInv
<1>5. EntryTypes' /\ clock' \in 0..MaxClock
  BY DEF FlowInv, EntryTypes, challengeVars
<1>6. QED
  BY <1>1, <1>2, <1>3, <1>4, <1>5 DEF FlowGoesOn, FlowInv, BansOnTheStorage

(***************************************************************************)
(* Whatever an attempt does, it leaves the bans on the storage alone.      *)
(***************************************************************************)
LEMMA AttemptsIgnoreRecords ==
  ASSUME FlowInv, NEW p \in Procs, UNCHANGED <<record, clock>>,
         pc[p] \in {"idle"} \union TokenCalls,
         NEW l \in {"idle"} \union TokenCalls, Goto(p, l),
         \A q \in Procs \ {p} : job'[q] = job[q]
  PROVE  BansOnTheStorage
<1>1. l \notin {"drop", "set"} /\ pc[p] \notin {"look", "set"}
  BY DEF TokenCalls
<1>2. QED
  BY <1>1, RecordsIgnored DEF FlowInv

LEMMA SubmitFlows ==
  ASSUME FlowInv, NEW p \in Procs, NEW k \in Keys, NEW t \in Tokens \union {NoToken},
         NEW s \in BOOLEAN, Submit(p, k, t, s)
  PROVE  FlowGoesOn
<1> DEFINE c == Bumped(requests[k], RequestWindow)
<1>0. /\ clock \in Nat /\ RecordTypes /\ CallTypes /\ CountersInv
  BY DEF FlowInv, CountersInv
<1>1. CallTypes'
  BY <1>0, AttemptSuits
<1>2. /\ UNCHANGED <<clock, banVars, refreshing, counter, record, times,
                     claims, failures, passes, lastUse, replayed, outlived>>
      /\ pc[p] = "idle" /\ c.value <= MaxCount
      /\ requests' = [requests EXCEPT ![k] = c]
      /\ admitted' = [admitted EXCEPT ![k] = IF MayAttempt(c) THEN Append(@, clock) ELSE @]
  BY DEF Submit
<1>3. CountersInv'
  <2>1. c \in CounterEntries
    <3>1. EndsInTime(requests[k], RequestWindow, clock)
      BY <1>0 DEF CountersInv, LimitIsKept
    <3>2. QED
      BY <1>0, <1>2, <3>1, BumpedCounter, ChallengeAssumption DEF CountersInv
  <2>2. LimitIsKept(c, IF MayAttempt(c) THEN Append(admitted[k], clock) ELSE admitted[k],
                    clock, refreshing)
    BY <1>0, <1>2, RequestingKeepsLimit DEF CountersInv
  <2> HIDE DEF c
  <2>3. requests' \in [Keys -> CounterEntries]
    BY <1>0, <1>2, <2>1 DEF CountersInv
  <2>4. \A i \in Keys : LimitIsKept(requests'[i], admitted'[i], clock, refreshing)
    BY <1>0, <1>2, <2>2 DEF CountersInv
  <2>5. QED
    BY <1>0, <1>2, <2>3, <2>4 DEF CountersInv
<1>4. BansOnTheStorage
  <2>1. CASE UNCHANGED <<pc, job>>
    <3>1. Goto(p, "idle")
      BY <1>0, <1>2, <2>1 DEF Goto, CallTypes
    <3>2. QED
      BY <1>2, <2>1, <3>1, AttemptsIgnoreRecords
  <2>2. CASE Goto(p, "claim") /\ \E j : Remember(p, j)
    <3>1. "claim" \in TokenCalls /\ \A q \in Procs \ {p} : job'[q] = job[q]
      BY <1>0, <2>2 DEF Remember, CallTypes, TokenCalls
    <3>2. QED
      BY <1>2, <2>2, <3>1, AttemptsIgnoreRecords
  <2>3. QED
    BY <2>1, <2>2 DEF Submit
<1>5. BanInv' /\ OffenceTypes'
  BY <1>2, BansStay DEF FlowInv
<1>6. EntryTypes' /\ clock' \in 0..MaxClock
  BY <1>2 DEF FlowInv, EntryTypes
<1>7. QED
  BY <1>1, <1>3, <1>4, <1>5, <1>6 DEF FlowGoesOn, FlowInv, BansOnTheStorage

LEMMA AttemptFlows ==
  ASSUME FlowInv, NEW p \in Procs,
         \/ ClaimToken(p) \/ ReleaseToken(p) \/ RecordFailure(p) \/ Escalate(p) \/ Cancel(p)
         \/ \E a \in Answers \union {NoAnswer, TooLong} : Respond(p, a)
  PROVE  FlowGoesOn
<1>0. /\ clock \in Nat /\ RecordTypes /\ CallTypes /\ CountersInv /\ EntryTypes
  BY DEF FlowInv, CountersInv
<1>1. CallTypes'
  BY <1>0, AttemptSuits
<1>2. /\ UNCHANGED <<clock, refreshing, counter, record, times, requests, admitted>>
      /\ pc[p] \in TokenCalls
  BY DEF ClaimToken, ReleaseToken, RecordFailure, Escalate, Cancel, Respond, challengeVars, TokenCalls
<1>3. CountersInv'
  BY <1>0, <1>2, CountersStay
<1>4. PICK l \in {"idle"} \union TokenCalls :
        Goto(p, l) /\ \A q \in Procs \ {p} : job'[q] = job[q]
  <2>1. CASE Done(p)
    BY <1>0, <2>1 DEF Done, Remember, CallTypes
  <2>2. CASE ClaimToken(p) /\ ~Done(p)
    BY <1>0, <2>2 DEF ClaimToken, CallTypes, TokenCalls
  <2>3. ASSUME NEW a, Respond(p, a), ~Done(p)
        PROVE  \E l \in TokenCalls : Goto(p, l) /\ UNCHANGED job
    BY <2>3 DEF Respond, TokenCalls
  <2>4. CASE ReleaseToken(p) \/ RecordFailure(p) \/ Escalate(p) \/ Cancel(p)
    BY <2>1, <2>4 DEF ReleaseToken, RecordFailure, Escalate, Cancel, TokenCalls
  <2>5. QED
    BY <2>1, <2>2, <2>3, <2>4
<1>5. BansOnTheStorage
  BY <1>2, <1>4, AttemptsIgnoreRecords
<1>6. job[p] \in TokenJobs
  BY <1>0, <1>2 DEF CallTypes, Suits
<1>7. BanInv' /\ OffenceTypes'
  <2>1. CASE UNCHANGED banVars
    BY <1>2, <2>1, BansStay DEF FlowInv
  <2>2. CASE RecordViolation(job[p].key)
    <3>1. PICK k \in Keys : k = job[p].key
      BY <1>6 DEF TokenJobs
    <3>2. BanInv'
      BY <1>2, <2>2, <3>1, RecordKeepsBans DEF FlowInv
    <3>3. offences' = [offences EXCEPT ![k] = Append(@, clock)]
      BY <2>2, <3>1 DEF RecordViolation
    <3>4. OffenceTypes'
      BY <1>0, <3>3, AppendingIsLatest DEF FlowInv, OffenceTypes
    <3>5. QED
      BY <3>2, <3>4
  <2>3. QED
    BY <2>1, <2>2 DEF ClaimToken, ReleaseToken, RecordFailure, Escalate, Cancel, Respond
<1>8. EntryTypes'
  <2>1. CASE ClaimToken(p)
    <3>1. clock + TokenTTL \in Nat
      BY <1>0, ChallengeAssumption
    <3>2. QED
      BY <1>0, <2>1, <3>1 DEF ClaimToken, EntryTypes
  <2>2. CASE ReleaseToken(p)
    BY <1>0, <2>2 DEF ReleaseToken, EntryTypes, Outlives
  <2>3. CASE RecordFailure(p)
    <3>1. PICK k \in Keys : k = job[p].key
      BY <1>6 DEF TokenJobs
    <3> DEFINE c == Bumped(failures[k], FailureWindow)
    <3>2. c.value <= MaxCount /\ failures' = [failures EXCEPT ![k] = c]
      BY <2>3, <3>1 DEF RecordFailure
    <3>3. c \in CounterEntries
      <4>1. failures[k] \in CounterEntries /\ failures[k] # None =>
              failures[k].value \in 1..MaxCount /\ failures[k].expires \in Nat
        BY <1>0, CounterTypes, ChallengeAssumption DEF EntryTypes
      <4>2. c.value \in Nat \ {0} /\ c.expires \in Nat
        BY <1>0, <4>1, ChallengeAssumption DEF Bumped, EntryTypes
      <4>3. c = [value |-> c.value, expires |-> c.expires]
        BY DEF Bumped
      <4> HIDE DEF c
      <4>4. c.value \in 1..MaxCount
        BY <3>2, <4>2, ChallengeAssumption
      <4>5. QED
        BY <4>2, <4>3, <4>4 DEF CounterEntries, Counters
    <3> HIDE DEF c
    <3>4. QED
      BY <1>0, <2>3, <3>2, <3>3 DEF RecordFailure, EntryTypes
  <2>4. CASE Escalate(p) \/ Cancel(p)
    BY <1>0, <2>4 DEF Escalate, Cancel, EntryTypes, challengeVars
  <2>5. ASSUME NEW a, Respond(p, a) PROVE EntryTypes'
    <3>1. clock + CookieTTL \in Nat /\ job[p].until \in Nat
      BY <1>0, <1>6, ChallengeAssumption DEF TokenJobs
    <3>2. /\ passes' = [passes EXCEPT ![job[p].key] = clock + CookieTTL] \/ passes' = passes
          /\ lastUse' = [lastUse EXCEPT ![job[p].token] = job[p].until] \/ lastUse' = lastUse
          /\ claims' = claims /\ failures' = failures
      BY <2>5 DEF Respond
    <3>3. replayed' \in [Tokens -> BOOLEAN] /\ outlived' \in [Tokens -> BOOLEAN]
      BY <1>0, <2>5 DEF Respond, Outlives, EntryTypes
    <3>4. QED
      BY <1>0, <3>1, <3>2, <3>3 DEF EntryTypes
  <2>6. QED
    BY <2>1, <2>2, <2>3, <2>4, <2>5
<1>9. clock' \in 0..MaxClock
  BY <1>2 DEF FlowInv
<1>10. QED
  BY <1>1, <1>3, <1>5, <1>7, <1>8, <1>9 DEF FlowGoesOn, FlowInv, BansOnTheStorage

LEMMA TickFlows ==
  ASSUME FlowInv, ChallengeTick
  PROVE  FlowGoesOn
<1>0. /\ clock \in Nat /\ RecordTypes /\ CallTypes /\ CountersInv /\ EntryTypes
      /\ clock' = clock + 1 /\ clock' \in 0..MaxClock /\ WritersKnow
  BY ChallengeAssumption DEF FlowInv, CountersInv, ChallengeTick
<1>1. BansOnTheStorage
  BY <1>0, RecordsAge DEF ChallengeTick
<1>2. CallTypes'
  BY <1>0 DEF ChallengeTick, SharedBansAge, CallTypes
<1>3. BanInv'
  BY <1>0, UnchangedBansAreKept DEF FlowInv, ChallengeTick, BansAge
<1>4. OffenceTypes'
  <2>1. \A k \in Keys : Within(offences[k], BanWindow, clock') \in Seq(Nat)
    BY <1>0, WithinIsSeq, BanAssumption DEF FlowInv, OffenceTypes
  <2>2. QED
    BY <2>1 DEF ChallengeTick, BansAge, OffenceTypes
<1>5. CountersInv'
  <2>1. /\ counter' = [k \in Keys |-> Left(counter[k], clock + 1)]
        /\ requests' = [k \in Keys |-> Left(requests[k], clock + 1)]
        /\ times' = [k \in Keys |-> Within(times[k], BanWindow, clock + 1)]
        /\ admitted' = [k \in Keys |-> Within(admitted[k], RequestWindow, clock + 1)]
        /\ refreshing' = refreshing
    BY <1>0 DEF ChallengeTick, SharedBansAge, Remaining, Left
  <2>2. ASSUME NEW k \in Keys
        PROVE  /\ CountIsFair(counter'[k], times'[k], clock + 1, refreshing)
               /\ LimitIsKept(requests'[k], admitted'[k], clock + 1, refreshing)
    <3>1. /\ counter[k] \in CounterEntries /\ requests[k] \in CounterEntries
          /\ CountIsFair(counter[k], times[k], clock, refreshing)
          /\ LimitIsKept(requests[k], admitted[k], clock, refreshing)
          /\ refreshing \in BOOLEAN
      BY <1>0 DEF CountersInv
    <3>2. CountIsFair(Left(counter[k], clock + 1), Within(times[k], BanWindow, clock + 1),
                      clock + 1, refreshing)
      BY <1>0, <3>1, AgeingIsFair
    <3>3. LimitIsKept(Left(requests[k], clock + 1), Within(admitted[k], RequestWindow, clock + 1),
                      clock + 1, refreshing)
      BY <1>0, <3>1, AgeingKeepsLimit
    <3>4. QED
      BY <2>1, <3>2, <3>3
  <2>3. /\ counter' \in [Keys -> CounterEntries] /\ requests' \in [Keys -> CounterEntries]
        /\ DOMAIN times' = Keys /\ DOMAIN admitted' = Keys
    BY <1>0, <2>1 DEF CountersInv, Left, CounterEntries
  <2>4. clock' \in Nat /\ refreshing' \in BOOLEAN
    BY <1>0, <2>1 DEF CountersInv
  <2>5. QED
    BY <1>0, <2>1, <2>2, <2>3, <2>4 DEF CountersInv
<1>6. EntryTypes'
  BY <1>0 DEF ChallengeTick, EntryTypes, Remaining, CounterEntries
<1>7. QED
  BY <1>0, <1>1, <1>2, <1>3, <1>4, <1>5, <1>6 DEF FlowGoesOn, FlowInv, BansOnTheStorage

LEMMA StutteringFlows ==
  ASSUME FlowInv, UNCHANGED flowVars
  PROVE  FlowGoesOn
<1>0. UNCHANGED <<clock, banVars, sharedBanVars, challengeVars>>
  BY DEF flowVars
<1>1. CountersInv' /\ BanInv' /\ OffenceTypes'
  BY <1>0, CountersStay, BansStay DEF FlowInv, sharedBanVars, challengeVars
<1>2. CallTypes' /\ EntryTypes' /\ RecordTypes' /\ clock' \in 0..MaxClock
  BY <1>0 DEF FlowInv, sharedBanVars, challengeVars, CallTypes, EntryTypes, RecordTypes
<1>3. \A k \in Keys : Strength(k)' = Strength(k) /\ Strength(k) \in 0..Top
  BY <1>0, RecordProperties DEF FlowInv, sharedBanVars, Strength, Over
<1>4. WritersKnow' /\ \A k \in Keys : WeakenedByARace(k)
  BY <1>0, <1>3 DEF FlowInv, sharedBanVars, WritersKnow, Knows, Writing, WeakenedByARace
<1>5. \A p \in Procs, k \in Keys : ReturnsWithABan(p, k)
  BY <1>0 DEF sharedBanVars, ReturnsWithABan
<1>6. QED
  BY <1>1, <1>2, <1>4, <1>5 DEF FlowGoesOn, FlowInv, BansOnTheStorage

LEMMA FlowInit == ChallengeInit => FlowInv
<1> SUFFICES ASSUME ChallengeInit PROVE FlowInv
  OBVIOUS
<1>0. clock = 0 /\ MaxClock \in Nat
  BY ChallengeAssumption DEF ChallengeInit
<1>1. << >> \in Seq(Nat)
  BY EmptySeq
<1>2. BanInv /\ OffenceTypes
  BY <1>0, <1>1 DEF ChallengeInit, BanInit, BanInv, BanTypes, BansEndInReach, OffenceTypes
<1>3. RecordTypes /\ CallTypes /\ WritersKnow
  BY DEF ChallengeInit, SharedBanInit, RecordTypes, CallTypes, Suits, Labels, BanCalls,
         TokenCalls, WritersKnow, Knows, Writing
<1>4. CountersInv
  <2>1. \A k \in Keys : /\ CountIsFair(None, << >>, clock, refreshing)
                        /\ LimitIsKept(None, << >>, clock, refreshing)
    BY <1>0, NothingCounted DEF ChallengeInit, SharedBanInit
  <2>2. QED
    BY <1>0, <2>1 DEF ChallengeInit, SharedBanInit, CountersInv, CounterEntries
<1>5. EntryTypes
  BY DEF ChallengeInit, EntryTypes, CounterEntries
<1>6. QED
  BY <1>0, <1>2, <1>3, <1>4, <1>5 DEF FlowInv

LEMMA FlowStep ==
  ASSUME FlowInv, [ChallengeNext]_flowVars
  PROVE  FlowGoesOn
<1>1. CASE ChallengeTick
  BY <1>1, TickFlows
<1>2. ASSUME NEW p \in Procs, SharedBanStep(p), UNCHANGED <<clock, banVars, challengeVars>>
      PROVE  FlowGoesOn
  BY <1>2, BanStepFlows
<1>3. ASSUME NEW p \in Procs,
             \/ ClaimToken(p) \/ ReleaseToken(p) \/ RecordFailure(p) \/ Escalate(p) \/ Cancel(p)
             \/ \E a \in Answers \union {NoAnswer, TooLong} : Respond(p, a)
      PROVE  FlowGoesOn
  BY <1>3, AttemptFlows
<1>4. ASSUME NEW p \in Procs, NEW k \in Keys, NEW t \in Tokens \union {NoToken},
             NEW s \in BOOLEAN, Submit(p, k, t, s)
      PROVE  FlowGoesOn
  BY <1>4, SubmitFlows
<1>5. CASE UNCHANGED flowVars
  BY <1>5, StutteringFlows
<1>6. QED
  BY <1>1, <1>2, <1>3, <1>4, <1>5 DEF ChallengeNext

-----------------------------------------------------------------------------

(***************************************************************************)
(* All of this holds in every reachable state.                             *)
(***************************************************************************)
THEOREM FlowInvariant == ChallengeSpec => []FlowInv
<1>1. FlowInv /\ [ChallengeNext]_flowVars => FlowInv'
  BY FlowStep DEF FlowGoesOn
<1>2. QED
  BY <1>1, FlowInit, PTL DEF ChallengeSpec

(***************************************************************************)
(* Type correctness of the challenge flow and of the shared bans.          *)
(***************************************************************************)
THEOREM TypesAreKept == ChallengeSpec => []ChallengeTypeOK
<1>1. FlowInv => ChallengeTypeOK
  <2>1. SUFFICES ASSUME FlowInv PROVE ChallengeTypeOK
    OBVIOUS
  <2>2. BanTypeOK
    BY <2>1 DEF FlowInv, BanTypeOK, BanInv, BanTypes, BanEntries, OffenceTypes
  <2>3. SharedBanTypeOK
    BY <2>1 DEF FlowInv, SharedBanTypeOK, CountersInv, CounterEntries, RecordTypes, Records
  <2>4. ASSUME NEW p \in Procs
        PROVE  IF pc[p] \in {"idle", "raised"} THEN job[p] = None ELSE job[p] \in Jobs
    <3>1. pc[p] \in Labels /\ Suits(pc[p], job[p])
      BY <2>1 DEF FlowInv, CallTypes
    <3>2. QED
      BY <3>1 DEF Suits, Labels, Jobs, BanJobs, TokenJobs
  <2>5. QED
    BY <2>1, <2>2, <2>3, <2>4
       DEF FlowInv, ChallengeTypeOK, EntryTypes, CountersInv, CounterEntries
<1>2. QED
  BY <1>1, FlowInvariant, PTL

(***************************************************************************)
(* AttemptsBounded of Challenge: whatever attempts overlap, a client gets  *)
(* no more of them let in within a window than the limit, or than twice    *)
(* the limit where an increment keeps the counter's expiry.                *)
(***************************************************************************)
THEOREM AttemptsAreBounded == ChallengeSpec => []AttemptsBounded
<1>1. FlowInv => AttemptsBounded
  <2>1. SUFFICES ASSUME FlowInv, NEW k \in Keys
                 PROVE  Len(admitted[k]) <= IF refreshing THEN RequestLimit ELSE 2 * RequestLimit
    BY DEF AttemptsBounded
  <2>2. /\ LimitIsKept(requests[k], admitted[k], clock, refreshing)
        /\ requests[k] \in CounterEntries /\ clock \in Nat
    BY <2>1 DEF FlowInv, CountersInv
  <2>3. /\ LetIn(requests[k]) \in Nat /\ LetIn(requests[k]) <= RequestLimit
        /\ RequestLimit \in Nat /\ Len(admitted[k]) \in Nat
    BY <2>2, CounterTypes, TimesAreNumbers, ChallengeAssumption DEF LimitIsKept, Past
  <2>4. IF refreshing THEN Len(admitted[k]) <= LetIn(requests[k])
        ELSE Len(admitted[k]) <= LetIn(requests[k]) + RequestLimit
    BY <2>2 DEF LimitIsKept, CoversAll, LeavesFew
  <2>5. QED
    BY <2>3, <2>4
<1>2. QED
  BY <1>1, FlowInvariant, PTL

(***************************************************************************)
(* CounterErrsOneWay of SharedBan: a counter whose expiry is kept never    *)
(* has more violations than the last window, and one whose expiry is       *)
(* refreshed never fewer.                                                  *)
(***************************************************************************)
THEOREM CountersErrOneWay == ChallengeSpec => []CounterErrsOneWay
<1>1. FlowInv => CounterErrsOneWay
  <2>1. SUFFICES ASSUME FlowInv, NEW k \in Keys
                 PROVE  IF refreshing THEN Value(counter[k]) >= Len(times[k])
                        ELSE Value(counter[k]) <= Len(times[k])
    BY DEF CounterErrsOneWay, Value
  <2>2. /\ CountIsFair(counter[k], times[k], clock, refreshing)
        /\ counter[k] \in CounterEntries /\ clock \in Nat
    BY <2>1 DEF FlowInv, CountersInv
  <2>3. Value(counter[k]) \in Nat /\ Len(times[k]) \in Nat
    BY <2>2, CounterTypes, TimesAreNumbers, BanAssumption DEF CountIsFair, Past
  <2>4. QED
    BY <2>2, <2>3 DEF CountIsFair, CoversAll, CountsTheLast
<1>2. QED
  BY <1>1, FlowInvariant, PTL

(***************************************************************************)
(* OnlyARaceWeakens of SharedBan, for any number of overlapping calls.     *)
(***************************************************************************)
THEOREM OnlyRacesWeaken == ChallengeSpec => OnlyARaceWeakens
<1>1. FlowInv /\ [ChallengeNext]_flowVars =>
        [\A k \in Keys :
           (Strength(k)' < Strength(k) /\ clock' = clock) =>
             \E p \in Procs : \/ pc'[p] = "clear" /\ pc[p] = "idle"
                              \/ Writing(p, k) /\ job[p].raced /\ pc'[p] # pc[p]]_record
  BY FlowStep DEF FlowGoesOn, BansOnTheStorage, WeakenedByARace
<1>2. QED
  BY <1>1, FlowInvariant, PTL DEF ChallengeSpec, OnlyARaceWeakens

(***************************************************************************)
(* TheThresholdBans of SharedBan, for any number of overlapping calls, any *)
(* escalation and any threshold.                                           *)
(***************************************************************************)
THEOREM TheThresholdAlwaysBans == ChallengeSpec => TheThresholdBans
<1>1. FlowInv /\ [ChallengeNext]_flowVars =>
        [\A p \in Procs, k \in Keys :
           (pc[p] \in {"look", "set"} /\ pc'[p] = "idle" /\ job[p].key = k) =>
             Strength(k)' >= job[p].level]_pc
  BY FlowStep DEF FlowGoesOn, BansOnTheStorage, ReturnsWithABan
<1>2. QED
  BY <1>1, FlowInvariant, PTL DEF ChallengeSpec, TheThresholdBans

-----------------------------------------------------------------------------
(* The largest and the smallest of finitely many numbers *)

LEMMA GreatestOf ==
  ASSUME NEW D, IsFiniteSet(D), D # {}, NEW f, \A x \in D : f[x] \in Int
  PROVE  \E x \in D : \A y \in D : f[y] <= f[x]
<1> DEFINE Ok(s) == \E x \in s : \A y \in s : f[y] <= f[x]
           Bad == {s \in SUBSET D : s # {} /\ ~Ok(s)}
<1>1. \A s \in SUBSET D : IsFiniteSet(s)
  BY FS_Subset
<1> SUFFICES ASSUME Bad # {} PROVE FALSE
  OBVIOUS
<1>2. PICK s \in Bad : \A t \in Bad : Cardinality(s) <= Cardinality(t)
  BY <1>1, SmallestOf
<1>3. s \subseteq D /\ IsFiniteSet(s) /\ s # {} /\ ~Ok(s)
  BY <1>1, <1>2
<1> DEFINE x == First(s)
           r == s \ {x}
<1>4. x \in s /\ ~(Cardinality(s) <= Cardinality(r))
  <2>1. /\ x \in s /\ Cardinality(s) \in Nat
        /\ Cardinality(r) = Cardinality(s) - 1
    BY <1>3, WithoutFirst, Zenon
  <2>2. QED
    BY <2>1
<1> HIDE DEF x
<1>5. r # {}
  <2> SUFFICES ASSUME r = {} PROVE FALSE
    OBVIOUS
  <2>1. s = {x} /\ f[x] \in Int
    BY <1>3, <1>4
  <2>2. QED
    BY <1>3, <2>1
<1>6. Ok(r)
  <2>1. r \in SUBSET D /\ ~(r \in Bad)
    BY <1>2, <1>3, <1>4
  <2> HIDE DEF Ok
  <2>2. QED
    BY <1>5, <2>1
<1>7. PICK y \in r : \A z \in r : f[z] <= f[y]
  BY <1>6
<1>8. f[x] \in Int /\ \A z \in r : f[z] \in Int
  BY <1>3, <1>4
<1>9. CASE f[x] <= f[y]
  <2>1. \A z \in s : f[z] <= f[y]
    BY <1>7, <1>9
  <2>2. QED
    BY <1>3, <1>7, <2>1
<1>10. CASE f[y] < f[x]
  <2>1. \A z \in s : f[z] <= f[x]
    BY <1>7, <1>8, <1>10
  <2>2. QED
    BY <1>3, <1>4, <2>1
<1>11. QED
  BY <1>7, <1>8, <1>9, <1>10

LEMMA SmallestNumber ==
  ASSUME NEW D, IsFiniteSet(D), D # {}, NEW f, \A x \in D : f[x] \in Int
  PROVE  \E x \in D : \A y \in D : f[x] <= f[y]
<1> DEFINE g == [x \in D |-> -f[x]]
<1>1. \A x \in D : g[x] \in Int /\ f[x] \in Int /\ g[x] = -f[x]
  OBVIOUS
<1> HIDE DEF g
<1>2. PICK x \in D : \A y \in D : g[y] <= g[x]
  BY <1>1, GreatestOf
<1>3. QED
  BY <1>1, <1>2

LEMMA MinIsLeast ==
  ASSUME NEW S, NEW x \in S, \A y \in S : x <= y
  PROVE  Min(S) \in S /\ \A y \in S : Min(S) <= y
BY DEF Min

-----------------------------------------------------------------------------
(* SentinelDetector *)

Scored == [score : Int, by : {"leaves", "splits"}]

SentinelTypes ==
  /\ forest \in {"none", "leaves", "splits"}
  /\ scores \in Seq(Scored)

\* A zero among the scores was measured by a forest of leaves.
ZerosAreMeasured == \A i \in DOMAIN scores : scores[i].score = 0 => scores[i].by = "leaves"

SentinelInv == SentinelTypes /\ ZerosAreMeasured

\* the scores that are as high as s
AsHigh(s) == {i \in 1..Len(scores) : scores[i].score >= s}

LEMMA ShareIsLess ==
  ASSUME NEW n \in Nat \ {0}
  PROVE  n \div OneIn \in Nat /\ n \div OneIn < n /\ Percentile(n) \in 1..n
<1> DEFINE q == n \div OneIn
<1>1. OneIn \in Nat /\ OneIn >= 2
  BY SentinelAssumption
<1>2. q \in Int /\ OneIn * q <= n /\ n < OneIn * q + OneIn
  BY <1>1
<1> HIDE DEF q
<1>3. q >= 0
  <2> SUFFICES ASSUME q <= -1 PROVE FALSE
    BY <1>2
  <2>1. OneIn * q <= -OneIn
    BY <1>1, <1>2
  <2>2. QED
    BY <1>1, <1>2, <2>1
<1>4. OneIn * q >= 2 * q
  BY <1>1, <1>2, <1>3
<1>5. q \in Nat /\ q < n /\ n - q \in 1..n
  <2> DEFINE p == OneIn * q
  <2>1. p \in Int /\ p <= n /\ p >= 2 * q
    BY <1>1, <1>2, <1>4
  <2> HIDE DEF p
  <2>2. QED
    BY <1>2, <1>3, <2>1
<1>6. QED
  BY <1>5 DEF q, Percentile

(***************************************************************************)
(* What is above the threshold is what no more than the share of the false *)
(* positives reach.                                                        *)
(***************************************************************************)
LEMMA AboveTheThreshold ==
  ASSUME SentinelTypes, Len(scores) >= MinScores, NEW s \in Int
  PROVE  s > ScoreThreshold <=> Cardinality(AsHigh(s)) <= Len(scores) \div OneIn
<1> DEFINE n == Len(scores)
           q == n \div OneIn
           f == [i \in 1..n |-> scores[i].score]
           Below == {i \in 1..n : f[i] < s}
           Values == {scores[i].score : i \in DOMAIN scores}
           Enough == {v \in Values : Cardinality(NotAbove(v)) >= Percentile(n)}
<1>1. n \in Nat \ {0} /\ DOMAIN scores = 1..n /\ \A i \in 1..n : scores[i] \in Scored
  <2>1. n \in Nat /\ DOMAIN scores = 1..n
    BY LenProperties DEF SentinelTypes
  <2>2. \A i \in 1..n : scores[i] \in Scored
    BY ElementOfSeq DEF SentinelTypes
  <2>3. QED
    BY <2>1, <2>2, SentinelAssumption
<1>2. \A i \in 1..n : f[i] = scores[i].score /\ f[i] \in Int
  BY <1>1 DEF Scored
<1>3. q \in Nat /\ q < n /\ Percentile(n) = n - q
  BY <1>1, ShareIsLess DEF Percentile
<1>4. IsFiniteSet(1..n) /\ Cardinality(1..n) = n
  BY <1>1, SegmentSize
<1>5. /\ AsHigh(s) = {i \in 1..n : f[i] >= s}
      /\ \A v : NotAbove(v) = {i \in 1..n : f[i] <= v}
      /\ Values = {f[i] : i \in 1..n}
  BY <1>1, <1>2 DEF AsHigh, NotAbove
<1> HIDE DEF n, q, f
<1>6. /\ IsFiniteSet(Below) /\ Cardinality(Below) \in Nat
      /\ Cardinality(AsHigh(s)) = n - Cardinality(Below)
  <2>1. AsHigh(s) = (1..n) \ Below /\ (1..n) \intersect Below = Below
    BY <1>2, <1>5
  <2>2. Cardinality(AsHigh(s)) = n - Cardinality(Below)
    <3>1. Cardinality((1..n) \ Below) = Cardinality(1..n) - Cardinality((1..n) \intersect Below)
      BY <1>4, FS_Difference, Zenon
    <3>2. QED
      BY <1>4, <2>1, <3>1, Zenon
  <2>3. QED
    BY <1>4, <2>2, FS_Subset, FS_CardinalityType
<1>7. /\ Min(Enough) \in Enough
      /\ \A v \in Enough : Min(Enough) <= v
  <2>1. PICK i \in 1..n : \A j \in 1..n : f[j] <= f[i]
    <3>1. 1 \in 1..n
      BY <1>1
    <3>2. QED
      BY <1>2, <1>4, <3>1, GreatestOf
  <2>2. NotAbove(f[i]) = 1..n
    BY <1>5, <2>1
  <2> DEFINE E == {j \in 1..n : f[j] \in Enough}
  <2>3. i \in E
    <3>1. Cardinality(NotAbove(f[i])) >= Percentile(n)
      BY <1>1, <1>3, <1>4, <2>2
    <3>2. f[i] \in Values
      BY <1>5
    <3> HIDE DEF Values
    <3>3. QED
      BY <3>1, <3>2
  <2>4. IsFiniteSet(E)
    BY <1>4, FS_Subset
  <2>5. PICK j \in E : \A k \in E : f[j] <= f[k]
    BY <1>2, <2>3, <2>4, SmallestNumber
  <2>6. \A v \in Enough : \E k \in E : v = f[k]
    BY <1>5
  <2>7. f[j] \in Enough /\ \A v \in Enough : f[j] <= v
    BY <2>5, <2>6
  <2> HIDE DEF Enough
  <2>8. QED
    BY <2>7, MinIsLeast
<1> DEFINE m == Min(Enough)
<1>8. ScoreThreshold = m
  BY SentinelAssumption DEF ScoreThreshold, n
<1>9. m \in Int /\ IsFiniteSet(NotAbove(m)) /\ Cardinality(NotAbove(m)) >= n - q
  <2>1. m \in Values /\ Cardinality(NotAbove(m)) >= n - q
    BY <1>3, <1>7
  <2> HIDE DEF m
  <2>2. m \in Int
    BY <1>2, <1>5, <2>1
  <2>3. NotAbove(m) \in SUBSET (1..n)
    BY <1>5
  <2>4. QED
    BY <1>4, <2>1, <2>2, <2>3, FS_Subset
<1> HIDE DEF m
<1>10. ASSUME s > m PROVE Cardinality(Below) >= n - q
  <2>1. NotAbove(m) \subseteq Below
    <3>1. \A i \in 1..n : f[i] <= m => f[i] < s
      BY <1>2, <1>9, <1>10
    <3>2. NotAbove(m) = {i \in 1..n : f[i] <= m}
      BY <1>5
    <3>3. QED
      BY <3>1, <3>2
  <2>2. Cardinality(NotAbove(m)) <= Cardinality(Below)
    BY <1>6, <2>1, FS_Subset
  <2>3. QED
    BY <1>1, <1>3, <1>6, <1>9, <2>2, FS_CardinalityType
<1>11. ASSUME Cardinality(Below) >= n - q PROVE s > m
  <2>1. Below # {}
    BY <1>1, <1>3, <1>6, <1>11, FS_EmptySet
  <2>2. PICK i \in Below : \A j \in Below : f[j] <= f[i]
    BY <1>2, <1>6, <2>1, GreatestOf
  <2>3. NotAbove(f[i]) = Below
    <3>1. \A j \in 1..n : f[j] <= f[i] <=> f[j] < s
      BY <1>2, <2>2
    <3>2. QED
      BY <1>5, <3>1
  <2>4. f[i] \in Enough
    BY <1>3, <1>5, <1>11, <2>2, <2>3
  <2>5. m <= f[i] /\ f[i] < s /\ f[i] \in Int
    BY <1>2, <1>7, <2>2, <2>4 DEF m
  <2>6. QED
    BY <1>9, <2>5
<1>12. Cardinality(AsHigh(s)) <= q <=> Cardinality(Below) >= n - q
  BY <1>1, <1>3, <1>6
<1>13. QED
  BY <1>8, <1>10, <1>11, <1>12 DEF n, q

LEMMA AnalyzeStep ==
  ASSUME SentinelInv, NEW sample \in Samples, Analyze(sample)
  PROVE  /\ SentinelInv'
         /\ verdict'.score \in Int
         /\ verdict'.anomaly <=> verdict'.score > ScoreThreshold
<1>1. PICK score \in PossibleScores :
        /\ \/ UNCHANGED forest
           \/ forest' \in Rebuilt(Append(reference, sample))
        /\ verdict' = [score |-> score, anomaly |-> score > ScoreThreshold]
        /\ scores' = IF ~HasModel THEN scores
                     ELSE (IF Len(scores) < ScoreWindow THEN scores ELSE Tail(scores))
                            \o <<[score |-> score, by |-> forest]>>
  BY DEF Analyze
<1>2. score \in Int /\ (score = 0 => forest # "splits")
  BY SentinelAssumption DEF PossibleScores
<1>3. forest' \in {"none", "leaves", "splits"}
  BY <1>1 DEF SentinelInv, SentinelTypes, Rebuilt
<1>4. scores' \in Seq(Scored) /\ ZerosAreMeasured'
  <2>1. CASE ~HasModel
    BY <1>1, <2>1 DEF SentinelInv, SentinelTypes, ZerosAreMeasured
  <2>2. CASE HasModel
    <3> DEFINE last == [score |-> score, by |-> forest]
               old == IF Len(scores) < ScoreWindow THEN scores ELSE Tail(scores)
    <3>1. last \in Scored /\ (last.score = 0 => last.by = "leaves")
      BY <1>2, <2>2 DEF HasModel, SentinelInv, SentinelTypes, Scored
    <3>2. /\ old \in Seq(Scored)
          /\ \A i \in 1..Len(old) : old[i].score = 0 => old[i].by = "leaves"
      <4>1. scores \in Seq(Scored) /\ Len(scores) \in Nat /\ DOMAIN scores = 1..Len(scores)
        BY LenProperties DEF SentinelInv, SentinelTypes
      <4>2. \A i \in 1..Len(scores) : scores[i].score = 0 => scores[i].by = "leaves"
        BY <4>1 DEF SentinelInv, ZerosAreMeasured
      <4>3. CASE Len(scores) < ScoreWindow
        BY <4>1, <4>2, <4>3
      <4>4. CASE ~(Len(scores) < ScoreWindow)
        <5>1. scores # <<>>
          BY <4>1, <4>4, SentinelAssumption, EmptySeq
        <5>2. /\ Tail(scores) \in Seq(Scored) /\ Len(Tail(scores)) = Len(scores) - 1
              /\ \A i \in 1..Len(Tail(scores)) : Tail(scores)[i] = scores[i + 1]
          BY <4>1, <5>1, HeadTailProperties
        <5>3. \A i \in 1..Len(Tail(scores)) : i + 1 \in 1..Len(scores)
          BY <4>1, <5>2
        <5>4. QED
          BY <4>2, <4>4, <5>2, <5>3
      <4>5. QED
        BY <4>3, <4>4
    <3>3. scores' = old \o <<last>>
      BY <1>1, <2>2
    <3> HIDE DEF old, last
    <3>4. /\ scores' = Append(old, last) /\ scores' \in Seq(Scored)
          /\ Len(scores') = Len(old) + 1 /\ Len(old) \in Nat
          /\ \A i \in 1..Len(old) : scores'[i] = old[i]
          /\ scores'[Len(old) + 1] = last
          /\ DOMAIN scores' = 1..Len(scores')
      BY <3>1, <3>2, <3>3, AppendIsConcat, AppendProperties, LenProperties
    <3>5. \A i \in DOMAIN scores' : i \in 1..Len(old) \/ i = Len(old) + 1
      BY <3>4
    <3>6. QED
      BY <3>1, <3>2, <3>4, <3>5 DEF ZerosAreMeasured
  <2>3. QED
    BY <2>1, <2>2
<1>5. QED
  BY <1>1, <1>2, <1>3, <1>4 DEF SentinelInv, SentinelTypes

LEMMA SentinelSteps ==
  ASSUME [DetectorsNext]_detectorsVars
  PROVE  UNCHANGED sentinelVars \/ \E sample \in Samples : Analyze(sample)
BY DEF DetectorsNext, DetectorsTick, detectorsVars, SentinelNext, sentinelVars

LEMMA SentinelInvariant == DetectorsSpec => []SentinelInv
<1>1. DetectorsInit => SentinelInv
  <2>1. <<>> \in Seq(Scored) /\ DOMAIN <<>> = {}
    BY EmptySeq
  <2>2. QED
    BY <2>1 DEF DetectorsInit, SentinelInit, SentinelInv, SentinelTypes, ZerosAreMeasured
<1>2. SentinelInv /\ [DetectorsNext]_detectorsVars => SentinelInv'
  <2> SUFFICES ASSUME SentinelInv, [DetectorsNext]_detectorsVars PROVE SentinelInv'
    OBVIOUS
  <2>1. CASE UNCHANGED sentinelVars
    BY <2>1 DEF sentinelVars, SentinelInv, SentinelTypes, ZerosAreMeasured
  <2>2. QED
    BY <2>1, SentinelSteps, AnalyzeStep
<1>3. QED
  BY <1>1, <1>2, PTL DEF DetectorsSpec

(***************************************************************************)
(* Once there are scores enough, a sample is an anomaly just if no more of *)
(* the last scores than the false positive rate allows are as high as its  *)
(* own; and no placeholder is among the scores (analyze,                   *)
(* _compute_threshold).                                                    *)
(***************************************************************************)
THEOREM TheTailIsAlwaysFlagged == DetectorsSpec => TailIsFlagged
<1> DEFINE Flagged ==
      LET n == Len(scores)
          asHigh == {i \in 1..n : scores[i].score >= verdict'.score}
          zeros == {i \in 1..n : scores[i].score = 0}
      IN /\ n >= MinScores => (verdict'.anomaly <=> Cardinality(asHigh) <= n \div OneIn)
         /\ \A i \in zeros : scores[i].by = "leaves"
<1>1. SentinelInv /\ [DetectorsNext]_detectorsVars => [Flagged]_sentinelVars
  <2> SUFFICES ASSUME SentinelInv, [DetectorsNext]_detectorsVars, ~UNCHANGED sentinelVars
               PROVE  Flagged
    OBVIOUS
  <2>1. /\ verdict'.score \in Int
        /\ verdict'.anomaly <=> verdict'.score > ScoreThreshold
    BY SentinelSteps, AnalyzeStep
  <2>2. ASSUME Len(scores) >= MinScores
        PROVE  verdict'.anomaly <=> Cardinality(AsHigh(verdict'.score)) <= Len(scores) \div OneIn
    BY <2>1, <2>2, AboveTheThreshold DEF SentinelInv
  <2>3. DOMAIN scores = 1..Len(scores)
    BY LenProperties DEF SentinelInv, SentinelTypes
  <2>4. QED
    BY <2>2, <2>3 DEF AsHigh, SentinelInv, ZerosAreMeasured
<1>2. QED
  BY <1>1, SentinelInvariant, PTL DEF DetectorsSpec, TailIsFlagged

-----------------------------------------------------------------------------
(* Lists from which entries go *)

LEMMA EntriesDropped ==
  ASSUME NEW S, NEW s \in Seq(S), NEW e \in 0..Len(s)
  PROVE  LET r == SubSeq(s, 1 + e, Len(s)) IN
         /\ r \in Seq(S)
         /\ Len(r) = Len(s) - e
         /\ \A i \in 1..Len(r) : r[i] = s[i + e]
<1>1. Len(s) \in Nat /\ 1 + e \in Int /\ e \in Int
  BY LenProperties
<1>2. \A i \in (1 + e)..Len(s) : s[i] \in S
  BY <1>1, ElementOfSeq
<1> DEFINE r == SubSeq(s, 1 + e, Len(s))
<1>3. /\ r \in Seq(S)
      /\ Len(r) = IF 1 + e <= Len(s) THEN Len(s) - (1 + e) + 1 ELSE 0
      /\ \A i \in 1..(Len(s) - (1 + e) + 1) : r[i] = s[(1 + e) + i - 1]
  BY <1>1, <1>2, SubSeqProperties
<1> HIDE DEF r
<1>4. Len(r) = Len(s) - e /\ Len(s) - (1 + e) + 1 = Len(s) - e
  BY <1>1, <1>3
<1>5. \A i \in 1..Len(r) : (1 + e) + i - 1 = i + e
  BY <1>1, <1>4
<1>6. QED
  BY <1>3, <1>4, <1>5 DEF r

LEMMA EntryRemoved ==
  ASSUME NEW S, NEW s \in Seq(S), NEW p \in 1..Len(s)
  PROVE  LET r == RemoveAt(s, p) IN
         /\ r \in Seq(S)
         /\ Len(r) = Len(s) - 1
         /\ \A i \in 1..Len(r) : r[i] = IF i < p THEN s[i] ELSE s[i + 1]
<1> DEFINE before == SubSeq(s, 1, p - 1)
           behind == SubSeq(s, 1 + p, Len(s))
<1>1. Len(s) \in Nat /\ p \in 0..Len(s) /\ p - 1 \in Int
  BY LenProperties
<1>2. /\ before \in Seq(S)
      /\ Len(before) = p - 1
      /\ \A i \in 1..(p - 1) : before[i] = s[i]
  <2>1. \A i \in 1..(p - 1) : s[i] \in S
    BY <1>1, ElementOfSeq
  <2>2. /\ before \in Seq(S)
        /\ Len(before) = IF 1 <= p - 1 THEN (p - 1) - 1 + 1 ELSE 0
        /\ \A i \in 1..((p - 1) - 1 + 1) : before[i] = s[1 + i - 1]
    BY <1>1, <2>1, SubSeqProperties
  <2> HIDE DEF before
  <2>3. (p - 1) - 1 + 1 = p - 1 /\ \A i \in 1..(p - 1) : 1 + i - 1 = i
    BY <1>1
  <2>4. QED
    BY <1>1, <2>2, <2>3
<1>3. /\ behind \in Seq(S)
      /\ Len(behind) = Len(s) - p
      /\ \A i \in 1..Len(behind) : behind[i] = s[i + p]
  BY <1>1, EntriesDropped
<1>4. RemoveAt(s, p) = before \o behind
  <2>1. p + 1 = 1 + p
    BY <1>1
  <2>2. QED
    BY <2>1, Zenon DEF RemoveAt
<1> HIDE DEF before, behind
<1> DEFINE r == before \o behind
<1>5. /\ r \in Seq(S)
      /\ Len(r) = Len(before) + Len(behind)
      /\ \A i \in 1..(Len(before) + Len(behind)) :
           r[i] = IF i <= Len(before) THEN before[i] ELSE behind[i - Len(before)]
  BY <1>2, <1>3, ConcatProperties
<1> HIDE DEF r
<1>6. Len(r) = Len(s) - 1
  BY <1>1, <1>2, <1>3, <1>5
<1>7. ASSUME NEW i \in 1..Len(r) PROVE r[i] = IF i < p THEN s[i] ELSE s[i + 1]
  <2>1. CASE i < p
    BY <1>1, <1>2, <1>3, <1>5, <1>6, <2>1
  <2>2. CASE ~(i < p)
    <3>1. i - (p - 1) \in 1..Len(behind) /\ (i - (p - 1)) + p = i + 1
      BY <1>1, <1>3, <1>6, <2>2
    <3>2. r[i] = behind[i - (p - 1)]
      BY <1>1, <1>2, <1>3, <1>5, <1>6, <2>2
    <3>3. QED
      BY <1>3, <2>2, <3>1, <3>2
  <2>3. QED
    BY <2>1, <2>2
<1>8. QED
  BY <1>4, <1>5, <1>6, <1>7 DEF r

-----------------------------------------------------------------------------
(* DefenseRandomizer *)

SessionRecords == [id : Keys, params : Params, created : Nat]

\* the sessions that must be younger than one the table has pushed out
Crowd == MaxSessions + 1 - Evicted(MaxSessions + 1)

Listed(list, k) == \E i \in 1..Len(list) : list[i].id = k

SessionsTypes ==
  /\ clock \in Nat
  /\ sessions \in Seq(SessionRecords)
  /\ shown \in [Keys -> [params : Params, since : Nat] \union {None}]
  /\ newer \in [Keys -> Nat]

\* A table names a session once, with what the session was shown last, and
\* whatever stands behind a session is younger.
FitsTheTable(list, seen, younger) ==
  /\ \A i, j \in 1..Len(list) : list[i].id = list[j].id => i = j
  /\ \A i \in 1..Len(list) :
       /\ seen[list[i].id] = [params |-> list[i].params, since |-> list[i].created]
       /\ younger[list[i].id] >= Len(list) - i

\* A session that is not in the table and was not cleared was pushed out.
OthersCrowdedOut(list, seen, younger) ==
  \A k \in Keys : seen[k] # None /\ ~Listed(list, k) => younger[k] >= Crowd

SessionsInv ==
  /\ SessionsTypes
  /\ Len(sessions) <= MaxSessions
  /\ FitsTheTable(sessions, shown, newer)
  /\ OthersCrowdedOut(sessions, shown, newer)

LEMMA ListedIsHas ==
  ASSUME SessionsTypes, NEW k
  PROVE  /\ DOMAIN sessions = 1..Len(sessions) /\ Len(sessions) \in Nat
         /\ Has(k) <=> Listed(sessions, k)
<1>1. DOMAIN sessions = 1..Len(sessions) /\ Len(sessions) \in Nat
  BY LenProperties DEF SessionsTypes
<1>2. QED
  BY <1>1 DEF Has, Listed

LEMMA PositionOf ==
  ASSUME SessionsTypes, NEW k, Has(k)
  PROVE  /\ Position(k) \in 1..Len(sessions)
         /\ sessions[Position(k)] \in SessionRecords
         /\ Session(k) = sessions[Position(k)]
         /\ Session(k).id = k
<1>1. PICK i \in DOMAIN sessions : sessions[i].id = k
  BY DEF Has
<1>2. Position(k) \in DOMAIN sessions /\ sessions[Position(k)].id = k
  BY <1>1, Zenon DEF Position
<1>3. Position(k) \in 1..Len(sessions)
  BY <1>2, ListedIsHas
<1>4. sessions[Position(k)] \in SessionRecords
  BY <1>3, ElementOfSeq DEF SessionsTypes
<1>5. QED
  BY <1>2, <1>3, <1>4 DEF Session

\* An overflow evicts something, and no more than there is.
LEMMA EvictionCounts ==
  ASSUME NEW n \in Nat, n <= MaxSessions + 1
  PROVE  /\ Evicted(n) \in 0..n
         /\ n - Evicted(n) <= MaxSessions
         /\ Evicted(n) # 0 => n - Evicted(n) = Crowd
         /\ Crowd \in 0..MaxSessions
<1>1. MaxSessions \in Nat /\ Share \in Nat \ {0}
  BY SessionsAssumption
<1>2. ASSUME NEW m \in Nat \ {0}, ~(m < Share) PROVE m \div Share \in 1..m
  <2> DEFINE q == m \div Share
             p == Share * q
  <2>1. q \in Int /\ p \in Int /\ p <= m /\ m < p + Share
    BY <1>1
  <2> HIDE DEF q
  <2>2. q >= 1
    <3> SUFFICES ASSUME q <= 0 PROVE FALSE
      BY <2>1
    <3>1. p <= 0
      BY <1>1, <2>1
    <3>2. QED
      BY <1>1, <1>2, <2>1, <3>1
  <2>3. p >= q
    BY <1>1, <2>1, <2>2
  <2> HIDE DEF p
  <2>4. q \in 1..m
    BY <2>1, <2>2, <2>3
  <2>5. QED
    BY <2>4 DEF q
<1>3. ASSUME NEW m \in Nat, m > MaxSessions PROVE Evicted(m) \in 1..m
  <2>1. m \in Nat \ {0}
    BY <1>1, <1>3
  <2>2. CASE m < Share
    BY <1>1, <1>3, <2>1, <2>2 DEF Evicted
  <2>3. CASE ~(m < Share)
    BY <1>1, <1>2, <1>3, <2>1, <2>3 DEF Evicted
  <2>4. QED
    BY <2>2, <2>3
<1>4. MaxSessions + 1 \in Nat /\ MaxSessions + 1 > MaxSessions
  BY <1>1
<1>5. Evicted(MaxSessions + 1) \in 1..(MaxSessions + 1)
  BY <1>3, <1>4
<1>6. Crowd \in 0..MaxSessions
  BY <1>1, <1>5 DEF Crowd
<1>7. CASE n <= MaxSessions
  BY <1>1, <1>6, <1>7 DEF Evicted
<1>8. CASE n = MaxSessions + 1
  BY <1>1, <1>5, <1>6, <1>8 DEF Crowd
<1>9. QED
  BY <1>1, <1>7, <1>8

\* The table without a session suits as before.
LEMMA OthersSuit ==
  ASSUME SessionsInv, NEW k \in Keys
  PROVE  LET list == Others(k) IN
         /\ list \in Seq(SessionRecords)
         /\ Len(list) \in Nat /\ Len(list) <= MaxSessions
         /\ FitsTheTable(list, shown, newer)
         /\ \A i \in 1..Len(list) : list[i] \in SessionRecords /\ list[i].id # k
         /\ \A l \in Keys \ {k} : Listed(list, l) <=> Listed(sessions, l)
<1>1. /\ SessionsTypes
      /\ sessions \in Seq(SessionRecords)
      /\ Len(sessions) \in Nat /\ Len(sessions) <= MaxSessions
      /\ \A i \in 1..Len(sessions) : sessions[i] \in SessionRecords
      /\ FitsTheTable(sessions, shown, newer)
  BY LenProperties, ElementOfSeq DEF SessionsInv, SessionsTypes
<1>2. CASE ~Has(k)
  <2>1. Others(k) = sessions
    BY <1>2 DEF Others
  <2>2. \A i \in 1..Len(sessions) : sessions[i].id # k
    BY <1>1, <1>2, ListedIsHas DEF Listed
  <2>3. QED
    BY <1>1, <2>1, <2>2
<1>3. CASE Has(k)
  <2> DEFINE p == Position(k)
             list == RemoveAt(sessions, p)
             Old(i) == IF i < p THEN i ELSE i + 1
  <2>1. Others(k) = list
    BY <1>3 DEF Others
  <2>2. p \in 1..Len(sessions) /\ sessions[p].id = k
    BY <1>1, <1>3, PositionOf
  <2> HIDE DEF p
  <2>3. /\ list \in Seq(SessionRecords)
        /\ Len(list) = Len(sessions) - 1
        /\ \A i \in 1..Len(list) : list[i] = IF i < p THEN sessions[i] ELSE sessions[i + 1]
    BY <1>1, <2>2, EntryRemoved, Zenon
  <2> HIDE DEF list
  <2>4. \A i \in 1..Len(list) :
          /\ Old(i) \in 1..Len(sessions) /\ Old(i) # p
          /\ list[i] = sessions[Old(i)]
          /\ Len(list) - i <= Len(sessions) - Old(i)
    BY <1>1, <2>2, <2>3
  <2>5. \A i, j \in 1..Len(list) : Old(i) = Old(j) => i = j
    BY <1>1, <2>2, <2>3
  <2>6. \A j \in 1..Len(sessions) : j # p => \E i \in 1..Len(list) : Old(i) = j
    <3> TAKE j \in 1..Len(sessions)
    <3> HAVE j # p
    <3>1. CASE j < p
      BY <1>1, <2>2, <2>3, <3>1
    <3>2. CASE j > p
      <4>1. j - 1 \in 1..Len(list) /\ Old(j - 1) = j
        BY <1>1, <2>2, <2>3, <3>2
      <4>2. QED
        BY <4>1
    <3>3. QED
      BY <2>2, <3>1, <3>2
  <2> HIDE DEF Old
  <2>7. \A i \in 1..Len(list) : list[i] \in SessionRecords /\ list[i].id # k
    BY <1>1, <2>2, <2>4 DEF FitsTheTable
  <2>8. FitsTheTable(list, shown, newer)
    <3>1. ASSUME NEW i \in 1..Len(list)
          PROVE  /\ shown[list[i].id] = [params |-> list[i].params, since |-> list[i].created]
                 /\ newer[list[i].id] >= Len(list) - i
      <4>1. /\ shown[list[i].id] = [params |-> list[i].params, since |-> list[i].created]
            /\ newer[list[i].id] >= Len(sessions) - Old(i)
        BY <1>1, <2>4 DEF FitsTheTable
      <4>2. list[i].id \in Keys /\ Old(i) \in Int
        <5>1. list[i] \in SessionRecords /\ Old(i) \in 1..Len(sessions)
          BY <2>4, <2>7
        <5>2. list[i].id \in Keys
          BY <5>1 DEF SessionRecords
        <5>3. QED
          BY <1>1, <5>1, <5>2
      <4>3. newer[list[i].id] \in Nat /\ Len(list) - i \in Int /\ Len(sessions) - Old(i) \in Int
        <5>1. newer \in [Keys -> Nat]
          BY <1>1 DEF SessionsTypes
        <5>2. newer[list[i].id] \in Nat
          BY <4>2, <5>1
        <5>3. Len(list) \in Int
          BY <1>1, <2>3
        <5>4. QED
          BY <1>1, <4>2, <5>2, <5>3
      <4>4. QED
        BY <2>4, <4>1, <4>3
    <3>2. ASSUME NEW i \in 1..Len(list), NEW j \in 1..Len(list), list[i].id = list[j].id
          PROVE  i = j
      <4>1. /\ Old(i) \in 1..Len(sessions) /\ Old(j) \in 1..Len(sessions)
            /\ sessions[Old(i)].id = sessions[Old(j)].id
        BY <2>4, <3>2
      <4>2. Old(i) = Old(j)
        BY <1>1, <4>1 DEF FitsTheTable
      <4>3. QED
        BY <2>5, <4>2
    <3>3. QED
      BY <3>1, <3>2 DEF FitsTheTable
  <2>9. ASSUME NEW l \in Keys \ {k} PROVE Listed(list, l) <=> Listed(sessions, l)
    <3>1. ASSUME NEW i \in 1..Len(list), list[i].id = l PROVE Listed(sessions, l)
      BY <2>4, <3>1 DEF Listed
    <3>2. ASSUME NEW j \in 1..Len(sessions), sessions[j].id = l PROVE Listed(list, l)
      <4>1. PICK i \in 1..Len(list) : Old(i) = j
        BY <2>2, <2>6, <3>2
      <4>2. list[i].id = l
        BY <2>4, <3>2, <4>1
      <4>3. QED
        BY <4>2 DEF Listed
    <3>3. QED
      BY <3>1, <3>2 DEF Listed
  <2>10. Len(list) \in Nat /\ Len(list) <= MaxSessions
    BY <1>1, <2>2, <2>3, SessionsAssumption
  <2>11. QED
    BY <2>1, <2>3, <2>7, <2>8, <2>9, <2>10
<1>4. QED
  BY <1>2, <1>3

LEMMA CreationKeepsTable ==
  ASSUME SessionsInv, UNCHANGED clock, NEW k \in Keys, NEW params \in Params,
         sessions' = Kept(Append(Others(k), [id |-> k, params |-> params, created |-> clock])),
         shown' = [shown EXCEPT ![k] = [params |-> params, since |-> clock]],
         newer' = [l \in Keys |-> IF l = k THEN 0 ELSE AtMost(newer[l] + 1, MaxSessions)]
  PROVE  SessionsInv'
<1> DEFINE list == Others(k)
           new == [id |-> k, params |-> params, created |-> clock]
           full == Append(list, new)
           e == Evicted(Len(full))
<1>1. /\ list \in Seq(SessionRecords)
      /\ Len(list) \in Nat /\ Len(list) <= MaxSessions
      /\ FitsTheTable(list, shown, newer)
      /\ \A i \in 1..Len(list) : list[i] \in SessionRecords /\ list[i].id # k
      /\ \A l \in Keys \ {k} : Listed(list, l) <=> Listed(sessions, l)
  BY OthersSuit
<1> HIDE DEF list
<1>2. new \in SessionRecords /\ new.id = k /\ new.params = params /\ new.created = clock
  BY DEF SessionsInv, SessionsTypes, SessionRecords
<1> HIDE DEF new
<1>3. /\ full \in Seq(SessionRecords)
      /\ Len(full) = Len(list) + 1
      /\ \A i \in 1..Len(list) : full[i] = list[i]
      /\ full[Len(full)] = new
      /\ \A i \in 1..Len(full) : i \in 1..Len(list) \/ i = Len(full)
  BY <1>1, <1>2, AppendProperties
<1> HIDE DEF full
<1>4. MaxSessions \in Nat /\ Len(full) \in Nat \ {0} /\ Len(full) <= MaxSessions + 1
  BY <1>1, <1>3, SessionsAssumption
<1>5. /\ e \in 0..Len(full) /\ Len(full) - e <= MaxSessions
      /\ e # 0 => Len(full) - e = Crowd
      /\ Crowd \in 0..MaxSessions
  BY <1>4, EvictionCounts
<1> HIDE DEF e
<1>6. shown' \in [Keys -> [params : Params, since : Nat] \union {None}]
  BY DEF SessionsInv, SessionsTypes
<1>7. newer' \in [Keys -> Nat] /\ \A l \in Keys \ {k} :
        /\ newer[l] \in Nat
        /\ \A n \in Int : n <= newer[l] + 1 /\ n <= MaxSessions => n <= newer'[l]
  BY <1>4 DEF SessionsInv, SessionsTypes, AtMost
<1>8. FitsTheTable(full, shown', newer')
  <2>1. \A i, j \in 1..Len(full) : full[i].id = full[j].id => i = j
    BY <1>1, <1>2, <1>3 DEF FitsTheTable
  <2>2. ASSUME NEW i \in 1..Len(full)
        PROVE  /\ shown'[full[i].id] = [params |-> full[i].params, since |-> full[i].created]
               /\ newer'[full[i].id] >= Len(full) - i
    <3>1. CASE i = Len(full)
      <4>1. shown'[k] = [params |-> params, since |-> clock] /\ newer'[k] = 0
        BY DEF SessionsInv, SessionsTypes
      <4>2. QED
        BY <1>2, <1>3, <1>4, <3>1, <4>1
    <3>2. CASE i \in 1..Len(list)
      <4> DEFINE l == list[i].id
      <4>1. full[i] = list[i] /\ list[i] \in SessionRecords /\ l \in Keys \ {k}
        BY <1>1, <1>3, <3>2 DEF SessionRecords
      <4>2. /\ shown[l] = [params |-> list[i].params, since |-> list[i].created]
            /\ newer[l] >= Len(list) - i
        BY <1>1, <3>2 DEF FitsTheTable
      <4> HIDE DEF l
      <4>3. shown'[l] = shown[l]
        BY <4>1 DEF SessionsInv, SessionsTypes
      <4>4. newer'[l] >= Len(full) - i
        BY <1>1, <1>3, <1>4, <1>7, <3>2, <4>1, <4>2
      <4>5. QED
        BY <4>1, <4>2, <4>3, <4>4 DEF l
    <3>3. QED
      BY <1>3, <3>1, <3>2
  <2>3. QED
    BY <2>1, <2>2 DEF FitsTheTable
<1>9. /\ sessions' \in Seq(SessionRecords)
      /\ Len(sessions') = Len(full) - e
      /\ \A i \in 1..Len(sessions') : sessions'[i] = full[i + e]
  <2>1. sessions' = SubSeq(full, 1 + e, Len(full))
    BY DEF Kept, full, new, list, e
  <2> DEFINE r == SubSeq(full, 1 + e, Len(full))
  <2>2. /\ r \in Seq(SessionRecords)
        /\ Len(r) = Len(full) - e
        /\ \A i \in 1..Len(r) : r[i] = full[i + e]
    BY <1>3, <1>5, EntriesDropped
  <2> HIDE DEF r
  <2>3. sessions' = r
    BY <2>1 DEF r
  <2>4. QED
    BY <2>2, <2>3
<1>10. \A i \in 1..Len(sessions') :
         i + e \in 1..Len(full) /\ Len(sessions') - i = Len(full) - (i + e)
  BY <1>4, <1>5, <1>9
<1>11. FitsTheTable(sessions', shown', newer')
  <2>1. ASSUME NEW i \in 1..Len(sessions'), NEW j \in 1..Len(sessions'),
               sessions'[i].id = sessions'[j].id
        PROVE  i = j
    <3>1. /\ i + e \in 1..Len(full) /\ j + e \in 1..Len(full)
          /\ full[i + e].id = full[j + e].id
      BY <1>9, <1>10, <2>1
    <3>2. i + e = j + e
      BY <1>8, <3>1 DEF FitsTheTable
    <3>3. QED
      BY <1>5, <3>2
  <2>2. ASSUME NEW i \in 1..Len(sessions')
        PROVE  LET r == sessions'[i] IN
               /\ shown'[r.id] = [params |-> r.params, since |-> r.created]
               /\ newer'[r.id] >= Len(sessions') - i
    <3>1. /\ i + e \in 1..Len(full) /\ sessions'[i] = full[i + e]
          /\ Len(sessions') - i = Len(full) - (i + e)
      BY <1>9, <1>10
    <3>2. QED
      BY <1>8, <3>1 DEF FitsTheTable
  <2>3. QED
    BY <2>1, <2>2, Zenon DEF FitsTheTable
<1>12. OthersCrowdedOut(sessions', shown', newer')
  <2> SUFFICES ASSUME NEW l \in Keys, shown'[l] # None, ~Listed(sessions', l)
               PROVE  newer'[l] >= Crowd
    BY DEF OthersCrowdedOut
  <2>1. newer'[l] \in Nat /\ Crowd \in Int
    BY <1>5, <1>7
  <2>2. CASE Listed(full, l)
    <3>1. PICK j \in 1..Len(full) : full[j].id = l
      BY <2>2 DEF Listed
    <3>2. j <= e
      <4> SUFFICES ASSUME j > e PROVE FALSE
        BY <1>5
      <4>1. j - e \in 1..Len(sessions') /\ (j - e) + e = j
        BY <1>4, <1>5, <1>9
      <4>2. sessions'[j - e].id = l
        BY <1>9, <3>1, <4>1
      <4>3. QED
        BY <4>1, <4>2 DEF Listed
    <3>3. newer'[l] >= Len(full) - j
      BY <1>8, <3>1 DEF FitsTheTable
    <3>4. QED
      BY <1>4, <1>5, <2>1, <3>2, <3>3
  <2>3. CASE ~Listed(full, l)
    <3>1. l # k
      BY <1>2, <1>3, <1>4, <2>3 DEF Listed
    <3>2. ~Listed(list, l)
      BY <1>3, <1>4, <2>3 DEF Listed
    <3>3. shown[l] # None /\ ~Listed(sessions, l)
      BY <1>1, <3>1, <3>2 DEF SessionsInv, SessionsTypes
    <3>4. newer[l] >= Crowd
      BY <3>3 DEF SessionsInv, OthersCrowdedOut
    <3>5. Crowd <= newer[l] + 1 /\ Crowd <= MaxSessions
      BY <1>5, <1>7, <3>1, <3>4
    <3>6. QED
      BY <1>7, <2>1, <3>1, <3>5
  <2>4. QED
    BY <2>2, <2>3
<1>13. Len(sessions') <= MaxSessions
  BY <1>5, <1>9
<1>14. QED
  BY <1>6, <1>7, <1>9, <1>11, <1>12, <1>13 DEF SessionsInv, SessionsTypes

LEMMA ClearingKeepsTable ==
  ASSUME SessionsInv, UNCHANGED clock, NEW k \in Keys, ClearSession(k)
  PROVE  SessionsInv'
<1> DEFINE list == Others(k)
<1>1. /\ list \in Seq(SessionRecords)
      /\ Len(list) \in Nat /\ Len(list) <= MaxSessions
      /\ FitsTheTable(list, shown, newer)
      /\ \A i \in 1..Len(list) : list[i] \in SessionRecords /\ list[i].id # k
      /\ \A l \in Keys \ {k} : Listed(list, l) <=> Listed(sessions, l)
  BY OthersSuit
<1> HIDE DEF list
<1>2. sessions' = list /\ shown' = [shown EXCEPT ![k] = None] /\ newer' = newer
  BY DEF ClearSession, list
<1>3. SessionsTypes'
  BY <1>1, <1>2 DEF SessionsInv, SessionsTypes
<1>4. \A l \in Keys \ {k} : shown'[l] = shown[l]
  BY <1>2 DEF SessionsInv, SessionsTypes
<1>5. shown'[k] = None
  BY <1>2 DEF SessionsInv, SessionsTypes
<1>6. \A i \in 1..Len(list) : list[i].id \in Keys \ {k}
  BY <1>1 DEF SessionRecords
<1>7. FitsTheTable(list, shown', newer')
  BY <1>1, <1>2, <1>4, <1>6 DEF FitsTheTable
<1>8. OthersCrowdedOut(list, shown', newer')
  BY <1>1, <1>2, <1>4, <1>5 DEF SessionsInv, OthersCrowdedOut
<1>9. QED
  BY <1>1, <1>2, <1>3, <1>7, <1>8 DEF SessionsInv

\* Whoever has a session has been shown it.
LEMMA FoundAsShown ==
  ASSUME SessionsInv, NEW k \in Keys, Has(k)
  PROVE  shown[k] = [params |-> Session(k).params, since |-> Session(k).created]
BY PositionOf DEF SessionsInv, FitsTheTable

LEMMA ReturningSeesTheSame ==
  ASSUME SessionsInv, NEW k \in Keys, Has(k),
         shown' = [shown EXCEPT ![k] = [params |-> Session(k).params, since |-> @.since]]
  PROVE  shown' = shown
<1>1. shown[k] = [params |-> Session(k).params, since |-> shown[k].since]
  <2>1. shown[k] = [params |-> Session(k).params, since |-> Session(k).created]
    BY FoundAsShown
  <2>2. QED
    BY <2>1
<1>2. QED
  BY <1>1 DEF SessionsInv, SessionsTypes

LEMMA SessionsStep ==
  ASSUME SessionsInv, UNCHANGED clock, SessionsNext
  PROVE  SessionsInv'
<1>1. CASE ClearSessions
  <2>1. sessions' = <<>> /\ shown' = [k \in Keys |-> None] /\ newer' = newer
    BY <1>1 DEF ClearSessions
  <2>2. <<>> \in Seq(SessionRecords) /\ Len(<<>>) = 0
    BY EmptySeq
  <2>3. FitsTheTable(<<>>, shown', newer') /\ OthersCrowdedOut(<<>>, shown', newer')
    BY <2>1, <2>2 DEF FitsTheTable, OthersCrowdedOut
  <2>4. QED
    BY <2>1, <2>2, <2>3, SessionsAssumption DEF SessionsInv, SessionsTypes
<1>2. ASSUME NEW k \in Keys, GetParams(k) PROVE SessionsInv'
  <2>1. CASE /\ Has(k)
             /\ shown' = [shown EXCEPT ![k] = [params |-> Session(k).params, since |-> @.since]]
             /\ UNCHANGED <<sessions, newer>>
    <3>1. shown' = shown
      BY <2>1, ReturningSeesTheSame, Zenon
    <3>2. QED
      BY <2>1, <3>1 DEF SessionsInv, SessionsTypes
  <2>2. CASE /\ \E params \in Params :
                  /\ sessions' = Kept(Append(Others(k), [id |-> k, params |-> params, created |-> clock]))
                  /\ shown' = [shown EXCEPT ![k] = [params |-> params, since |-> clock]]
             /\ newer' = [l \in Keys |-> IF l = k THEN 0 ELSE AtMost(newer[l] + 1, MaxSessions)]
    BY <2>2, CreationKeepsTable
  <2>3. QED
    BY <1>2, <2>1, <2>2 DEF GetParams
<1>3. ASSUME NEW k \in Keys, ClearSession(k) PROVE SessionsInv'
  BY <1>3, ClearingKeepsTable
<1>4. QED
  BY <1>1, <1>2, <1>3 DEF SessionsNext

LEMMA SessionsSteps ==
  ASSUME [DetectorsNext]_detectorsVars
  PROVE  \/ UNCHANGED clock /\ SessionsNext
         \/ UNCHANGED clock /\ UNCHANGED sessionVars
         \/ clock' = clock + 1 /\ UNCHANGED sessionVars
BY DEF DetectorsNext, DetectorsTick, detectorsVars, sessionVars

LEMMA SessionsInvariant == DetectorsSpec => []SessionsInv
<1>1. DetectorsInit => SessionsInv
  <2> SUFFICES ASSUME DetectorsInit PROVE SessionsInv
    OBVIOUS
  <2>1. /\ clock = 0 /\ sessions = <<>>
        /\ shown = [k \in Keys |-> None] /\ newer = [k \in Keys |-> 0]
    BY DEF DetectorsInit, SessionsInit
  <2>2. <<>> \in Seq(SessionRecords) /\ Len(<<>>) = 0
    BY EmptySeq
  <2>3. FitsTheTable(<<>>, shown, newer) /\ OthersCrowdedOut(<<>>, shown, newer)
    BY <2>1, <2>2 DEF FitsTheTable, OthersCrowdedOut
  <2>4. QED
    BY <2>1, <2>2, <2>3, SessionsAssumption DEF SessionsInv, SessionsTypes
<1>2. SessionsInv /\ [DetectorsNext]_detectorsVars => SessionsInv'
  <2> SUFFICES ASSUME SessionsInv, [DetectorsNext]_detectorsVars PROVE SessionsInv'
    OBVIOUS
  <2>1. CASE UNCHANGED sessionVars /\ clock' \in {clock, clock + 1}
    BY <2>1 DEF sessionVars, SessionsInv, SessionsTypes
  <2>2. QED
    BY <2>1, SessionsSteps, SessionsStep
<1>3. QED
  BY <1>1, <1>2, PTL DEF DetectorsSpec

(***************************************************************************)
(* A session that was not cleared sees other parameters only when its time *)
(* is over or when a crowd of younger sessions has pushed it out           *)
(* (get_session_params, _evict_oldest).                                    *)
(***************************************************************************)
THEOREM OnlyACrowdEverReshuffles == DetectorsSpec => OnlyACrowdReshuffles
<1> DEFINE Reshuffled ==
      \A k \in Keys :
        (shown[k] # None /\ shown'[k] # None /\ shown'[k] # shown[k]) =>
          \/ clock - shown[k].since > SessionTTL
          \/ newer[k] >= MaxSessions + 1 - Evicted(MaxSessions + 1)
<1>1. SessionsInv /\ [DetectorsNext]_detectorsVars => [Reshuffled]_shown
  <2> SUFFICES ASSUME SessionsInv, [DetectorsNext]_detectorsVars,
                      NEW k \in Keys, shown[k] # None, shown'[k] # None, shown'[k] # shown[k]
               PROVE  clock - shown[k].since > SessionTTL \/ newer[k] >= Crowd
    BY DEF Crowd
  <2>1. SessionsNext
    BY SessionsSteps DEF sessionVars
  <2>2. ~ClearSessions /\ \A l \in Keys : ~ClearSession(l) 
    BY DEF ClearSessions, ClearSession, SessionsInv, SessionsTypes
  <2>3. PICK l \in Keys : GetParams(l)
    BY <2>1, <2>2 DEF SessionsNext
  <2>4. l = k
    BY <2>3 DEF GetParams, SessionsInv, SessionsTypes
  <2>5. Has(k) => ~Fresh(Session(k))
    <3> SUFFICES ASSUME Has(k), Fresh(Session(k)) PROVE FALSE
      OBVIOUS
    <3>1. shown' = [shown EXCEPT ![k] = [params |-> Session(k).params, since |-> @.since]]
      BY <2>3, <2>4 DEF GetParams
    <3>2. QED
      BY <3>1, ReturningSeesTheSame, Zenon
  <2>6. CASE Has(k)
    <3>1. shown[k].since = Session(k).created
      <4>1. shown[k] = [params |-> Session(k).params, since |-> Session(k).created]
        BY <2>6, FoundAsShown
      <4>2. QED
        BY <4>1
    <3>2. clock \in Nat /\ Session(k).created \in Nat /\ SessionTTL \in Nat
      BY <2>6, PositionOf, SessionsAssumption DEF SessionsInv, SessionsTypes, SessionRecords
    <3>3. QED
      BY <2>5, <2>6, <3>1, <3>2 DEF Fresh
  <2>7. CASE ~Has(k)
    BY <2>7, ListedIsHas DEF SessionsInv, OthersCrowdedOut
  <2>8. QED
    BY <2>6, <2>7
<1>2. QED
  BY <1>1, SessionsInvariant, PTL DEF DetectorsSpec, OnlyACrowdReshuffles

-----------------------------------------------------------------------------
(* CountMinSketch and BloomFilter *)

Cells == 0..(Width - 1)

CountsInv ==
  /\ table \in [Rows -> [Cells -> Nat]]
  /\ bits \in [Cells -> BOOLEAN]
  /\ added \in [Items -> Nat]
  /\ \A i \in Items, r \in Rows :
       table[r][Cell[r][i]] >= added[i] /\ (added[i] > 0 => bits[Cell[r][i]])

LEMMA CellsOfItems == \A r \in Rows, i \in Items : Cell[r][i] \in Cells
BY SketchAssumption DEF Cells

LEMMA AddItemStep ==
  ASSUME CountsInv, NEW i \in Items, AddItem(i)
  PROVE  CountsInv'
<1>1. /\ table' = [r \in Rows |-> [table[r] EXCEPT ![Cell[r][i]] = @ + 1]]
      /\ bits' = [c \in Cells |-> bits[c] \/ \E r \in Rows : Cell[r][i] = c]
      /\ added' = [added EXCEPT ![i] = @ + 1]
  BY DEF AddItem, CountsInv
<1>2. table' \in [Rows -> [Cells -> Nat]]
  BY <1>1, CellsOfItems DEF CountsInv
<1>3. added' \in [Items -> Nat] /\ \A j \in Items : added'[j] = IF j = i THEN added[i] + 1 ELSE added[j]
  BY <1>1 DEF CountsInv
<1>4. bits' \in [Cells -> BOOLEAN]
  BY <1>1 DEF CountsInv
<1>5. ASSUME NEW j \in Items, NEW r \in Rows
      PROVE  table'[r][Cell[r][j]] >= added'[j]
  <2>1. /\ Cell[r][j] \in Cells /\ Cell[r][i] \in Cells
        /\ table[r] \in [Cells -> Nat]
        /\ table[r][Cell[r][j]] >= added[j] /\ added[j] \in Nat
    BY CellsOfItems DEF CountsInv
  <2>2. table'[r][Cell[r][j]] = IF Cell[r][j] = Cell[r][i] THEN table[r][Cell[r][j]] + 1
                                ELSE table[r][Cell[r][j]]
    BY <1>1, <2>1
  <2>3. table[r][Cell[r][j]] \in Nat
    BY <2>1
  <2>4. QED
    BY <1>3, <2>1, <2>2, <2>3
<1>6. ASSUME NEW j \in Items, NEW r \in Rows, added'[j] > 0
      PROVE  bits'[Cell[r][j]]
  <2>1. Cell[r][j] \in Cells
    BY CellsOfItems
  <2>2. j = i \/ bits[Cell[r][j]]
    BY <1>3, <1>6 DEF CountsInv
  <2>3. QED
    BY <1>1, <2>1, <2>2
<1>7. QED
  BY <1>2, <1>3, <1>4, <1>5, <1>6, Zenon DEF CountsInv

LEMMA CountsAreFound ==
  ASSUME CountsInv, NEW i \in Items
  PROVE  Estimate(i) >= added[i] /\ (added[i] > 0 => MightContain(i))
<1> DEFINE E == {table[r][Cell[r][i]] : r \in Rows}
<1>1. E \subseteq Nat /\ E # {} /\ \A n \in E : n >= added[i]
  BY CellsOfItems, SketchAssumption DEF CountsInv
<1> HIDE DEF E
<1>2. PICK n \in E : \A m \in E : n <= m
  BY <1>1, LeastOf
<1>3. Min(E) \in E
  BY <1>2, MinIsLeast
<1>4. Estimate(i) >= added[i]
  BY <1>1, <1>3 DEF Estimate, E
<1>5. QED
  BY <1>4 DEF CountsInv, MightContain

-----------------------------------------------------------------------------
(* HyperLogLog *)

HllTypes ==
  /\ hll \in [1..2 -> [Registers -> Nat]]
  /\ merging \in 0..Cardinality(Registers)
  /\ counted \in [1..2 -> SUBSET Items]
  /\ promised \in SUBSET Items

HllInv ==
  /\ HllTypes
  /\ \A h \in 1..2 : \A i \in counted[h] : hll[h][Register[i]] >= Rank[i]
  /\ merging # 0 => promised \subseteq counted[2]
  /\ \A i \in promised : Register[i] < merging => hll[1][Register[i]] >= Rank[i]

LEMMA RegistersAreNumbers ==
  /\ Cardinality(Registers) \in Nat \ {0}
  /\ Registers = 1..Cardinality(Registers)
  /\ \A i \in Items : Register[i] \in Registers /\ Rank[i] \in Nat
<1>1. Cardinality(Registers) \in Nat
  BY SketchAssumption, FS_CardinalityType
<1>2. QED
  BY <1>1, SketchAssumption, FS_EmptySet

LEMMA LargerOfTwo ==
  ASSUME NEW a \in Nat, NEW b \in Nat
  PROVE  /\ Max({a, b}) \in Nat
         /\ Max({a, b}) >= a /\ Max({a, b}) >= b
<1>1. \E x \in {a, b} : \A y \in {a, b} : x >= y
  OBVIOUS
<1>2. Max({a, b}) \in {a, b} /\ \A y \in {a, b} : Max({a, b}) >= y
  BY <1>1, Zenon DEF Max
<1>3. QED
  BY <1>2

\* A register is raised; nothing that was counted is lost by that.
LEMMA RegisterRaised ==
  ASSUME HllInv, NEW h \in 1..2, NEW r \in Registers, NEW n \in Nat,
         hll' = [hll EXCEPT ![h][r] = Max({@, n})]
  PROVE  /\ hll' \in [1..2 -> [Registers -> Nat]]
         /\ \A g \in 1..2, q \in Registers : hll'[g][q] >= hll[g][q]
         /\ hll'[h][r] >= n
<1>1. hll[h] \in [Registers -> Nat] /\ hll[h][r] \in Nat
  BY DEF HllInv, HllTypes
<1> DEFINE m == Max({hll[h][r], n})
<1>2. m \in Nat /\ m >= hll[h][r] /\ m >= n
  BY <1>1, LargerOfTwo
<1>3. hll' = [hll EXCEPT ![h][r] = m]
  OBVIOUS
<1> HIDE DEF m
<1> DEFINE raised == [hll[h] EXCEPT ![r] = m]
<1>4. raised \in [Registers -> Nat] /\ \A q \in Registers : raised[q] = IF q = r THEN m ELSE hll[h][q]
  BY <1>1, <1>2
<1>5. hll' = [hll EXCEPT ![h] = raised]
  BY <1>3
<1> HIDE DEF raised
<1>6. /\ hll' \in [1..2 -> [Registers -> Nat]]
      /\ \A g \in 1..2 : hll'[g] = IF g = h THEN raised ELSE hll[g]
  BY <1>4, <1>5 DEF HllInv, HllTypes
<1>7. ASSUME NEW g \in 1..2, NEW q \in Registers PROVE hll'[g][q] >= hll[g][q]
  <2>1. hll[g][q] \in Nat
    BY DEF HllInv, HllTypes
  <2>2. hll'[g][q] = IF g = h /\ q = r THEN m ELSE hll[g][q]
    BY <1>4, <1>6
  <2>3. QED
    BY <1>2, <2>1, <2>2
<1>8. hll'[h][r] = m
  BY <1>4, <1>6
<1>9. QED
  BY <1>2, <1>6, <1>7, <1>8

LEMMA CountInStep ==
  ASSUME HllInv, NEW h \in 1..2, NEW i \in Items, CountIn(h, i)
  PROVE  HllInv'
<1>1. /\ hll' = [hll EXCEPT ![h][Register[i]] = Max({@, Rank[i]})]
      /\ counted' = [counted EXCEPT ![h] = @ \union {i}]
      /\ merging' = merging /\ promised' = promised
  BY DEF CountIn
<1>2. Register[i] \in Registers /\ Rank[i] \in Nat
  BY RegistersAreNumbers
<1>3. /\ hll' \in [1..2 -> [Registers -> Nat]]
      /\ \A g \in 1..2, q \in Registers : hll'[g][q] >= hll[g][q]
      /\ hll'[h][Register[i]] >= Rank[i]
  BY <1>1, <1>2, RegisterRaised
<1>4. /\ counted' \in [1..2 -> SUBSET Items]
      /\ \A g \in 1..2 : counted[g] \subseteq counted'[g]
      /\ \A g \in 1..2 : \A j \in counted'[g] : j \in counted[g] \/ (g = h /\ j = i)
  BY <1>1 DEF HllInv, HllTypes
<1>5. \A g \in 1..2, j \in Items :
        /\ Register[j] \in Registers /\ Rank[j] \in Nat
        /\ hll[g][Register[j]] \in Nat /\ hll'[g][Register[j]] \in Nat
        /\ hll'[g][Register[j]] >= hll[g][Register[j]]
  BY <1>3, RegistersAreNumbers DEF HllInv, HllTypes
<1>6. \A g \in 1..2 : \A j \in counted'[g] : hll'[g][Register[j]] >= Rank[j]
  <2> TAKE g \in 1..2
  <2> TAKE j \in counted'[g]
  <2>1. CASE j \in counted[g]
    <3>1. hll[g][Register[j]] >= Rank[j] /\ j \in Items
      BY <2>1 DEF HllInv, HllTypes
    <3>2. QED
      BY <1>5, <3>1
  <2>2. QED
    BY <1>3, <1>4, <2>1
<1>7. \A j \in promised : Register[j] < merging => hll'[1][Register[j]] >= Rank[j]
  BY <1>5 DEF HllInv, HllTypes
<1>8. merging # 0 => promised \subseteq counted'[2]
  BY <1>4 DEF HllInv
<1>9. QED
  BY <1>1, <1>3, <1>4, <1>6, <1>7, <1>8 DEF HllInv, HllTypes

LEMMA StartMergeStep ==
  ASSUME HllInv, StartMerge
  PROVE  HllInv'
<1>1. merging' = 1 /\ promised' = counted[2] /\ hll' = hll /\ counted' = counted
  BY DEF StartMerge
<1>2. \A i \in Items : ~(Register[i] < 1)
  BY RegistersAreNumbers
<1>3. QED
  BY <1>1, <1>2, RegistersAreNumbers DEF HllInv, HllTypes

LEMMA MergeRegisterStep ==
  ASSUME HllInv, MergeRegister
  PROVE  HllInv'
<1>1. /\ merging # 0 /\ promised' = promised
      /\ hll' = [hll EXCEPT ![1][merging] = Max({@, hll[2][merging]})]
  BY DEF MergeRegister
<1>2. merging \in Registers /\ hll[2][merging] \in Nat
  BY <1>1, RegistersAreNumbers DEF HllInv, HllTypes
<1>3. /\ hll' \in [1..2 -> [Registers -> Nat]]
      /\ \A g \in 1..2, q \in Registers : hll'[g][q] >= hll[g][q]
      /\ hll'[1][merging] >= hll[2][merging]
  <2> DEFINE n == hll[2][merging]
  <2>1. n \in Nat /\ 1 \in 1..2 /\ hll' = [hll EXCEPT ![1][merging] = Max({@, n})]
    BY <1>1, <1>2
  <2> HIDE DEF n
  <2>2. hll'[1][merging] >= n
    BY <1>2, <2>1, RegisterRaised
  <2>3. QED
    BY <1>2, <2>1, <2>2, RegisterRaised DEF n
<1>4. \A g \in 1..2, j \in Items :
        /\ Register[j] \in Registers /\ Register[j] \in Nat /\ Rank[j] \in Nat
        /\ hll[g][Register[j]] \in Nat /\ hll'[g][Register[j]] \in Nat
        /\ hll'[g][Register[j]] >= hll[g][Register[j]]
  BY <1>3, RegistersAreNumbers DEF HllInv, HllTypes
<1>5. \A g \in 1..2 : \A j \in counted[g] : j \in Items /\ hll'[g][Register[j]] >= Rank[j]
  <2> TAKE g \in 1..2
  <2> TAKE j \in counted[g]
  <2>1. hll[g][Register[j]] >= Rank[j] /\ j \in Items
    BY DEF HllInv, HllTypes
  <2>2. QED
    BY <1>4, <2>1
<1>6. \A j \in promised : Register[j] <= merging => hll'[1][Register[j]] >= Rank[j]
  <2> SUFFICES ASSUME NEW j \in promised, Register[j] <= merging
               PROVE  hll'[1][Register[j]] >= Rank[j]
    OBVIOUS
  <2>1. j \in Items /\ j \in counted[2]
    BY <1>1 DEF HllInv, HllTypes
  <2>2. CASE Register[j] = merging
    <3>1. hll[2][Register[j]] >= Rank[j]
      BY <2>1 DEF HllInv
    <3>2. QED
      BY <1>3, <1>4, <2>1, <2>2, <3>1
  <2>3. CASE Register[j] # merging
    <3>1. Register[j] < merging
      BY <1>4, <2>1, <2>3 DEF HllInv, HllTypes
    <3>2. hll[1][Register[j]] >= Rank[j]
      BY <3>1 DEF HllInv
    <3>3. QED
      BY <1>4, <2>1, <3>2
  <2>4. QED
    BY <2>2, <2>3
<1>7. CASE merging = Cardinality(Registers)
  <2>1. merging' = 0 /\ counted' = [counted EXCEPT ![1] = @ \union promised]
    BY <1>7 DEF MergeRegister
  <2>2. /\ counted' \in [1..2 -> SUBSET Items]
        /\ \A g \in 1..2 : \A j \in counted'[g] : j \in counted[g] \/ (g = 1 /\ j \in promised)
    BY <2>1 DEF HllInv, HllTypes
  <2>3. \A j \in promised : Register[j] <= merging
    BY <1>7, RegistersAreNumbers DEF HllInv, HllTypes
  <2>4. \A g \in 1..2 : \A j \in counted'[g] : hll'[g][Register[j]] >= Rank[j]
    BY <1>5, <1>6, <2>2, <2>3
  <2>5. \A j \in promised : ~(Register[j] < 0)
    BY <1>4 DEF HllInv, HllTypes
  <2>6. HllTypes'
    BY <1>1, <1>3, <2>1, <2>2, RegistersAreNumbers DEF HllInv, HllTypes
  <2>7. QED
    BY <1>1, <2>1, <2>4, <2>5, <2>6 DEF HllInv
<1>8. CASE merging # Cardinality(Registers)
  <2>1. merging' = merging + 1 /\ counted' = counted
    BY <1>8 DEF MergeRegister
  <2>2. merging' \in 0..Cardinality(Registers)
    BY <1>8, <2>1, RegistersAreNumbers DEF HllInv, HllTypes
  <2>3. \A j \in promised : Register[j] < merging' => Register[j] <= merging
    BY <1>4, <2>1 DEF HllInv, HllTypes
  <2>4. promised \subseteq counted[2]
    BY <1>1 DEF HllInv
  <2>5. QED
    BY <1>1, <1>3, <1>5, <1>6, <2>1, <2>2, <2>3, <2>4 DEF HllInv, HllTypes
<1>9. QED
  BY <1>7, <1>8

-----------------------------------------------------------------------------
(* How often something is in a list *)

Spots(list, x) == {p \in 1..Len(list) : list[p] = x}

Times(list, x) == Cardinality(Spots(list, x))

OneIf(condition) == IF condition THEN 1 ELSE 0

LEMMA SpotsAreFinite ==
  ASSUME NEW S, NEW s \in Seq(S), NEW x
  PROVE  /\ Len(s) \in Nat /\ DOMAIN s = 1..Len(s)
         /\ IsFiniteSet(Spots(s, x))
         /\ Times(s, x) \in Nat
         /\ Times(s, x) > 0 <=> \E p \in DOMAIN s : s[p] = x
<1>1. Len(s) \in Nat /\ DOMAIN s = 1..Len(s)
  BY LenProperties
<1>2. IsFiniteSet(1..Len(s)) /\ Spots(s, x) \in SUBSET (1..Len(s))
  BY <1>1, SegmentSize DEF Spots
<1>3. IsFiniteSet(Spots(s, x))
  BY <1>2, FS_Subset
<1>4. Times(s, x) \in Nat /\ (Times(s, x) = 0 <=> Spots(s, x) = {})
  BY <1>3, FS_CardinalityType, FS_EmptySet DEF Times
<1>5. QED
  BY <1>1, <1>3, <1>4 DEF Spots

LEMMA TimesAppended ==
  ASSUME NEW S, NEW s \in Seq(S), NEW y \in S, NEW x
  PROVE  Times(Append(s, y), x) = Times(s, x) + OneIf(y = x)
<1> DEFINE r == Append(s, y)
           n == Len(s) + 1
<1>1. Len(s) \in Nat /\ IsFiniteSet(Spots(s, x)) /\ Times(s, x) \in Nat
  BY SpotsAreFinite
<1>2. Len(r) = n /\ r[n] = y /\ \A i \in 1..Len(s) : r[i] = s[i]
  BY AppendProperties
<1> HIDE DEF r
<1>3. Spots(r, x) = IF y = x THEN Spots(s, x) \union {n} ELSE Spots(s, x)
  BY <1>1, <1>2 DEF Spots
<1>4. n \notin Spots(s, x)
  BY <1>1 DEF Spots
<1> HIDE DEF n
<1>5. CASE y = x
  <2>1. Spots(r, x) = Spots(s, x) \union {n}
    BY <1>3, <1>5
  <2>2. Cardinality(Spots(s, x) \union {n}) = Cardinality(Spots(s, x)) + 1
    BY <1>1, <1>4, FS_AddElement
  <2>3. QED
    BY <1>5, <2>1, <2>2 DEF Times, OneIf, r
<1>6. CASE y # x
  BY <1>1, <1>3, <1>6 DEF Times, OneIf, r
<1>7. QED
  BY <1>5, <1>6

LEMMA TimesSwapped ==
  ASSUME NEW S, NEW s \in Seq(S), NEW p \in 1..Len(s), NEW y \in S, NEW x
  PROVE  /\ [s EXCEPT ![p] = y] \in Seq(S)
         /\ Len([s EXCEPT ![p] = y]) = Len(s)
         /\ Times([s EXCEPT ![p] = y], x) = Times(s, x) + OneIf(y = x) - OneIf(s[p] = x)
<1> DEFINE r == [s EXCEPT ![p] = y]
           Rest == {q \in 1..Len(s) : q # p /\ s[q] = x}
<1>1. r \in Seq(S) /\ Len(r) = Len(s) /\ \A q \in 1..Len(s) : r[q] = IF q = p THEN y ELSE s[q]
  BY ExceptSeq
<1> HIDE DEF r
<1>2. /\ Spots(s, x) = IF s[p] = x THEN Rest \union {p} ELSE Rest
      /\ Spots(r, x) = IF y = x THEN Rest \union {p} ELSE Rest
  BY <1>1 DEF Spots
<1>3. Rest \in SUBSET Spots(s, x) /\ p \notin Rest
  BY DEF Spots
<1> HIDE DEF Rest
<1>4. IsFiniteSet(Rest) /\ Cardinality(Rest) \in Nat
  BY <1>3, SpotsAreFinite, FS_Subset, FS_CardinalityType
<1>5. Cardinality(Rest \union {p}) = Cardinality(Rest) + 1
  BY <1>3, <1>4, FS_AddElement
<1>6. Times(s, x) = Cardinality(Rest) + OneIf(s[p] = x)
  BY <1>2, <1>4, <1>5 DEF Times, OneIf
<1>7. Times(r, x) = Cardinality(Rest) + OneIf(y = x)
  BY <1>2, <1>4, <1>5 DEF Times, OneIf
<1>8. OneIf(y = x) \in Int /\ OneIf(s[p] = x) \in Int
  BY DEF OneIf
<1>9. QED
  BY <1>1, <1>4, <1>6, <1>7, <1>8 DEF r

LEMMA TimesRemoved ==
  ASSUME NEW S, NEW s \in Seq(S), NEW p \in 1..Len(s), NEW x
  PROVE  Times(RemoveAt(s, p), x) = Times(s, x) - OneIf(s[p] = x)
<1> DEFINE r == RemoveAt(s, p)
           Rest == Spots(s, x) \ {p}
           move == [i \in Spots(r, x) |-> IF i < p THEN i ELSE i + 1]
<1>1. /\ Len(s) \in Nat /\ IsFiniteSet(Spots(s, x)) /\ Times(s, x) \in Nat
  BY SpotsAreFinite
<1>2. /\ r \in Seq(S) /\ Len(r) = Len(s) - 1
      /\ \A i \in 1..Len(r) : r[i] = IF i < p THEN s[i] ELSE s[i + 1]
  BY EntryRemoved
<1> HIDE DEF r
<1>3. move \in [Spots(r, x) -> Rest]
  <2>1. ASSUME NEW i \in Spots(r, x) PROVE (IF i < p THEN i ELSE i + 1) \in Rest
    <3>1. i \in 1..Len(r) /\ r[i] = x
      BY DEF Spots
    <3>2. CASE i < p
      BY <1>1, <1>2, <3>1, <3>2 DEF Spots
    <3>3. CASE ~(i < p)
      <4>1. i + 1 \in 1..Len(s) /\ i + 1 # p /\ s[i + 1] = x
        BY <1>1, <1>2, <3>1, <3>3
      <4>2. QED
        BY <3>3, <4>1 DEF Spots
    <3>4. QED
      BY <3>2, <3>3
  <2>2. QED
    BY <2>1
<1>4. \A i, j \in Spots(r, x) : move[i] = move[j] => i = j
  BY <1>1, <1>2 DEF Spots
<1>5. \A j \in Rest : \E i \in Spots(r, x) : move[i] = j
  <2> TAKE j \in Rest
  <2>1. j \in 1..Len(s) /\ s[j] = x /\ j # p
    BY DEF Spots
  <2>2. CASE j < p
    <3>1. j \in 1..Len(r) /\ r[j] = x
      BY <1>1, <1>2, <2>1, <2>2
    <3>2. j \in Spots(r, x) /\ move[j] = j
      BY <2>2, <3>1 DEF Spots
    <3>3. QED
      BY <3>2
  <2>3. CASE j > p
    <3>1. j - 1 \in 1..Len(r) /\ r[j - 1] = x /\ ~(j - 1 < p) /\ (j - 1) + 1 = j
      BY <1>1, <1>2, <2>1, <2>3
    <3>2. j - 1 \in Spots(r, x) /\ move[j - 1] = j
      BY <3>1 DEF Spots
    <3>3. QED
      BY <3>2
  <2>4. QED
    BY <1>1, <2>1, <2>2, <2>3
<1> HIDE DEF Rest, move
<1>6. move \in Bijection(Spots(r, x), Rest)
  BY <1>3, <1>4, <1>5 DEF Bijection, Injection, Surjection, IsInjective
<1>7. IsFiniteSet(Spots(r, x))
  BY <1>2, SpotsAreFinite
<1>8. Cardinality(Rest) = Cardinality(Spots(r, x))
  BY <1>6, <1>7, FS_Bijection DEF ExistsBijection
<1>9. p \in Spots(s, x) <=> s[p] = x
  BY DEF Spots
<1>10. Cardinality(Rest) = IF s[p] = x THEN Cardinality(Spots(s, x)) - 1 ELSE Cardinality(Spots(s, x))
  BY <1>1, <1>9, FS_RemoveElement DEF Rest
<1>11. QED
  BY <1>1, <1>8, <1>10 DEF Times, OneIf, r

-----------------------------------------------------------------------------
(* CuckooFilter *)

Fingerprints == {Fingerprint[i] : i \in Items}

\* the numbers of buckets
Numbers == SUBSET Bits

\* buckets with what they hold
Filters == [Numbers -> Seq(Fingerprints)]

\* the buckets a fingerprint may be in that was found in b
Pair(b, fp) == {b, Alternate(b, fp)}

\* how often a pair of buckets holds a fingerprint
Copies(bs, b, fp) ==
  IF Alternate(b, fp) = b THEN Times(bs[b], fp)
  ELSE Times(bs[b], fp) + Times(bs[Alternate(b, fp)], fp)

\* the items that look for a fingerprint in a pair of buckets
Seekers(b, fp) == {i \in Items : Fingerprint[i] = fp /\ Bucket[i] \in Pair(b, fp)}

InHand(b, fp) == ~LockIsFree /\ hand.fp = fp /\ hand.at \in Pair(b, fp)

CuckooTypes ==
  /\ cuckoo \in Filters
  /\ hand \in [fp : Fingerprints, at : Numbers, left : Nat] \union {NoHand}
  /\ members \in [Items -> Nat]
  /\ lost \in Nat
  /\ count \in Int

\* A pair of buckets, with the hand, holds what its members need.
PairsAreComplete ==
  \A b \in Numbers, fp \in Fingerprints :
    Copies(cuckoo, b, fp) + OneIf(InHand(b, fp)) = SumOver(members, Seekers(b, fp))

\* what buckets hold in all
Held(bs) == SumOver([b \in Numbers |-> Len(bs[b])], Numbers)

CountIsRight ==
  /\ count = SumOver(members, Items) - lost - OneIf(~LockIsFree)
  /\ count = Held(cuckoo)

CuckooInv ==
  /\ CuckooTypes
  /\ lost = 0 => PairsAreComplete
  /\ CountIsRight

\* The other bucket's other bucket is the first again.
LEMMA AlternateReturns ==
  ASSUME NEW b \in Numbers, NEW fp
  PROVE  /\ Alternate(b, fp) \in Numbers
         /\ Alternate(Alternate(b, fp), fp) = b
BY DEF Alternate, SymDiff, Numbers

\* Two buckets of a pair make the same pair, and are in the same pairs.
LEMMA PairsAreClasses ==
  ASSUME NEW b \in Numbers, NEW c \in Numbers, NEW fp, NEW x \in Pair(c, fp)
  PROVE  x \in Numbers /\ (x \in Pair(b, fp) <=> c \in Pair(b, fp))
<1>1. Alternate(Alternate(c, fp), fp) = c /\ Alternate(Alternate(b, fp), fp) = b
  BY AlternateReturns
<1>2. Alternate(c, fp) \in Numbers
  BY AlternateReturns
<1>3. QED
  BY <1>1, <1>2 DEF Pair

LEMMA CopiesAreNumbers ==
  ASSUME NEW bs \in Filters, NEW b \in Numbers, NEW fp
  PROVE  Copies(bs, b, fp) \in Nat
<1>1. \A a \in Numbers : Times(bs[a], fp) \in Nat
  BY SpotsAreFinite DEF Filters
<1>2. QED
  BY <1>1, AlternateReturns DEF Copies

\* Buckets bs become ns, and only bucket c changes.
OnlyChanges(bs, ns, c) ==
  /\ bs \in Filters /\ ns \in Filters /\ c \in Numbers
  /\ \A a \in Numbers : a # c => ns[a] = bs[a]

LEMMA CopiesChanged ==
  ASSUME NEW bs, NEW ns, NEW c, OnlyChanges(bs, ns, c),
         NEW fp, NEW d \in Int, Times(ns[c], fp) = Times(bs[c], fp) + d,
         NEW b \in Numbers
  PROVE  /\ Copies(bs, b, fp) \in Nat
         /\ Copies(ns, b, fp) = Copies(bs, b, fp) + (IF c \in Pair(b, fp) THEN d ELSE 0)
<1> DEFINE o == Alternate(b, fp)
<1>1. o \in Numbers
  BY AlternateReturns
<1>2. \A a \in Numbers : Times(bs[a], fp) \in Nat /\ Times(ns[a], fp) \in Nat
  BY SpotsAreFinite DEF OnlyChanges, Filters
<1> HIDE DEF o
<1>3. /\ Times(bs[b], fp) \in Nat /\ Times(ns[b], fp) \in Nat
      /\ Times(bs[o], fp) \in Nat /\ Times(ns[o], fp) \in Nat
  BY <1>1, <1>2
<1>4. /\ b # c => ns[b] = bs[b]
      /\ o # c => ns[o] = bs[o]
  BY <1>1 DEF OnlyChanges
<1>5. /\ Copies(bs, b, fp) = IF o = b THEN Times(bs[b], fp) ELSE Times(bs[b], fp) + Times(bs[o], fp)
      /\ Copies(ns, b, fp) = IF o = b THEN Times(ns[b], fp) ELSE Times(ns[b], fp) + Times(ns[o], fp)
      /\ c \in Pair(b, fp) <=> c = b \/ c = o
  BY DEF Copies, o, Pair
<1>6. CASE c = b
  <2>1. CASE o = b
    BY <1>3, <1>5, <1>6, <2>1
  <2>2. CASE o # b
    BY <1>3, <1>4, <1>5, <1>6, <2>2
  <2>3. QED
    BY <2>1, <2>2
<1>7. CASE c # b /\ c = o
  BY <1>3, <1>4, <1>5, <1>7
<1>8. CASE c # b /\ c # o
  BY <1>3, <1>4, <1>5, <1>8
<1>9. QED
  BY <1>6, <1>7, <1>8

\* The same for what the buckets hold in all.
LEMMA LengthsChanged ==
  ASSUME NEW bs, NEW ns, NEW c, OnlyChanges(bs, ns, c)
  PROVE  /\ Held(bs) \in Int
         /\ Held(ns) = Held(bs) + (Len(ns[c]) - Len(bs[c]))
<1> DEFINE g == [b \in Numbers |-> Len(bs[b])]
           h == [b \in Numbers |-> Len(ns[b])]
<1>1. IsFiniteSet(Numbers)
  BY SketchAssumption, FS_SUBSET DEF Numbers
<1>2. \A b \in Numbers : g[b] = Len(bs[b]) /\ h[b] = Len(ns[b]) /\ g[b] \in Int /\ h[b] \in Int
  BY LenProperties DEF OnlyChanges, Filters
<1>3. c \in Numbers /\ \A b \in Numbers \ {c} : h[b] = g[b]
  BY <1>2 DEF OnlyChanges
<1> HIDE DEF g, h
<1>4. SumOver(h, Numbers) = SumOver(g, Numbers) + (h[c] - g[c])
  BY <1>1, <1>2, <1>3, SumChanged
<1>5. Held(bs) = SumOver(g, Numbers) /\ Held(ns) = SumOver(h, Numbers)
  BY DEF Held, g, h
<1>6. SumOver(g, Numbers) \in Int
  BY <1>1, <1>2, SumFirst
<1>7. h[c] = Len(ns[c]) /\ g[c] = Len(bs[c])
  BY <1>2, <1>3
<1>8. QED
  BY <1>4, <1>5, <1>6, <1>7

\* A member more or less is one for the pairs it looks in.
LEMMA MembersChanged ==
  ASSUME members \in [Items -> Nat], NEW i \in Items, NEW n \in Nat,
         NEW S, S \subseteq Items
  PROVE  LET after == [members EXCEPT ![i] = n] IN
         /\ SumOver(members, S) \in Nat
         /\ i \in S => SumOver(after, S) = SumOver(members, S) + (n - members[i])
         /\ i \notin S => SumOver(after, S) = SumOver(members, S)
<1> DEFINE after == [members EXCEPT ![i] = n]
<1>1. IsFiniteSet(S)
  BY SketchAssumption, FS_Subset
<1>2. after \in [Items -> Nat] /\ after[i] = n /\ \A j \in S \ {i} : after[j] = members[j]
  OBVIOUS
<1> HIDE DEF after
<1>3. /\ \A j \in S : members[j] \in Nat
      /\ \A j \in S : members[j] \in Int /\ after[j] \in Int
  BY <1>2
<1>4. SumOver(members, S) \in Nat
  BY <1>1, <1>3, SumIsNat
<1>5. /\ i \in S => SumOver(after, S) = SumOver(members, S) + (after[i] - members[i])
      /\ i \notin S => SumOver(after, S) = SumOver(members, S)
  BY <1>1, <1>2, <1>3, SumChanged
<1>6. QED
  BY <1>2, <1>4, <1>5 DEF after

LEMMA HandIsARecord ==
  ASSUME CuckooTypes
  PROVE  /\ ~LockIsFree => /\ hand \in [fp : Fingerprints, at : Numbers, left : Nat]
                           /\ hand.fp \in Fingerprints /\ hand.at \in Numbers /\ hand.left \in Nat
         /\ \A r \in [fp : Fingerprints, at : Numbers, left : Nat] : r # NoHand
<1>1. \A r \in [fp : Fingerprints, at : Numbers, left : Nat] : r # NoHand
  <2> TAKE r \in [fp : Fingerprints, at : Numbers, left : Nat]
  <2>1. PICK i \in Items : r.fp = Fingerprint[i]
    BY DEF Fingerprints
  <2>2. r \in [fp : {Fingerprint[i]}, at : Numbers, left : Nat]
    BY <2>1
  <2>3. QED
    BY <2>2, SketchAssumption DEF Numbers
<1>2. QED
  BY <1>1 DEF CuckooTypes, LockIsFree

\* Fingerprint fp comes to bucket x of bs, which becomes ns.
PutIn(bs, ns, x, fp) ==
  /\ bs \in Filters /\ x \in Numbers /\ fp \in Fingerprints
  /\ ns = [bs EXCEPT ![x] = Append(@, fp)]

LEMMA PutInBucket ==
  ASSUME NEW bs, NEW ns, NEW x, NEW fp, PutIn(bs, ns, x, fp)
  PROVE  /\ ns \in Filters
         /\ \A b \in Numbers, g \in Fingerprints :
              /\ Copies(bs, b, g) \in Nat
              /\ Copies(ns, b, g) = Copies(bs, b, g) + OneIf(fp = g /\ x \in Pair(b, g))
         /\ Held(bs) \in Int /\ Held(ns) = Held(bs) + 1
<1>1. bs[x] \in Seq(Fingerprints) /\ Len(bs[x]) \in Nat /\ fp \in Fingerprints
  BY LenProperties DEF PutIn, Filters
<1>2. Append(bs[x], fp) \in Seq(Fingerprints) /\ Len(Append(bs[x], fp)) = Len(bs[x]) + 1
  BY <1>1, AppendProperties
<1>3. ns \in Filters /\ ns[x] = Append(bs[x], fp)
  BY <1>2 DEF PutIn, Filters
<1>4. OnlyChanges(bs, ns, x)
  BY <1>3 DEF PutIn, OnlyChanges, Filters
<1>5. ASSUME NEW b \in Numbers, NEW g \in Fingerprints
      PROVE  /\ Copies(bs, b, g) \in Nat
             /\ Copies(ns, b, g) = Copies(bs, b, g) + OneIf(fp = g /\ x \in Pair(b, g))
  <2> DEFINE d == OneIf(fp = g)
  <2>1. d \in Int /\ Times(ns[x], g) = Times(bs[x], g) + d
    BY <1>1, <1>3, TimesAppended DEF OneIf
  <2>2. d = IF fp = g THEN 1 ELSE 0
    BY DEF OneIf
  <2> HIDE DEF d
  <2>3. /\ Copies(bs, b, g) \in Nat
        /\ Copies(ns, b, g) = Copies(bs, b, g) + (IF x \in Pair(b, g) THEN d ELSE 0)
    BY <1>4, <2>1, CopiesChanged
  <2>4. QED
    BY <2>2, <2>3 DEF OneIf
<1>6. Held(bs) \in Int /\ Held(ns) = Held(bs) + (Len(ns[x]) - Len(bs[x]))
  BY <1>4, LengthsChanged
<1>7. Len(ns[x]) - Len(bs[x]) = 1
  BY <1>1, <1>2, <1>3
<1>8. QED
  BY <1>3, <1>5, <1>6, <1>7

LEMMA AddMemberStep ==
  ASSUME CuckooInv, NEW i \in Items, AddMember(i)
  PROVE  CuckooInv'
<1> DEFINE fp == Fingerprint[i]
           b == Bucket[i]
           entry == [fp |-> fp, at |-> b, left |-> MaxKicks]
<1>1. /\ fp \in Fingerprints /\ b \in Numbers /\ members[i] \in Nat
      /\ CuckooTypes /\ LockIsFree
  BY SketchAssumption DEF Fingerprints, Numbers, CuckooInv, CuckooTypes, AddMember
<1>2. /\ members' = [members EXCEPT ![i] = @ + 1]
      /\ lost' = lost
      /\ \/ \E x \in Pair(b, fp) : Put(cuckoo, x, fp)
         \/ hand' = entry /\ UNCHANGED <<cuckoo, count>>
  BY DEF AddMember, Pair
<1> HIDE DEF fp, b
<1>3. members' \in [Items -> Nat]
  BY <1>1, <1>2 DEF CuckooTypes
<1>4. /\ SumOver(members', Items) = SumOver(members, Items) + 1
      /\ SumOver(members, Items) \in Nat
  <2>1. /\ members \in [Items -> Nat] /\ members[i] + 1 \in Nat /\ Items \subseteq Items
        /\ members' = [members EXCEPT ![i] = members[i] + 1]
        /\ (members[i] + 1) - members[i] = 1
    BY <1>1, <1>2 DEF CuckooTypes
  <2> DEFINE n == members[i] + 1
  <2> HIDE DEF n
  <2>2. /\ SumOver(members, Items) \in Nat
        /\ SumOver(members', Items) = SumOver(members, Items) + (n - members[i])
    BY <2>1, MembersChanged DEF n
  <2>3. QED
    BY <2>1, <2>2 DEF n
<1>5. ASSUME NEW c \in Numbers, NEW g \in Fingerprints
      PROVE  /\ SumOver(members, Seekers(c, g)) \in Nat
             /\ SumOver(members', Seekers(c, g))
                  = SumOver(members, Seekers(c, g)) + OneIf(fp = g /\ b \in Pair(c, g))
  <2> DEFINE S == Seekers(c, g)
             n == members[i] + 1
  <2>1. S \subseteq Items /\ (i \in S <=> fp = g /\ b \in Pair(c, g))
    BY DEF Seekers, fp, b
  <2>2. /\ members \in [Items -> Nat] /\ n \in Nat /\ members' = [members EXCEPT ![i] = n]
        /\ n - members[i] = 1
    BY <1>1, <1>2 DEF CuckooTypes
  <2> HIDE DEF S, n
  <2>3. /\ SumOver(members, S) \in Nat
        /\ i \in S => SumOver(members', S) = SumOver(members, S) + (n - members[i])
        /\ i \notin S => SumOver(members', S) = SumOver(members, S)
    BY <2>1, <2>2, MembersChanged
  <2>4. QED
    BY <2>1, <2>2, <2>3 DEF OneIf, S
<1>6. CASE \E x \in Pair(b, fp) : Put(cuckoo, x, fp)
  <2>1. PICK x \in Pair(b, fp) : Put(cuckoo, x, fp)
    BY <1>6
  <2>2. /\ x \in Numbers
        /\ \A c \in Numbers : x \in Pair(c, fp) <=> b \in Pair(c, fp)
    BY <1>1, <2>1, PairsAreClasses
  <2>3. /\ cuckoo' = [cuckoo EXCEPT ![x] = Append(@, fp)]
        /\ count' = count + 1 /\ hand' = NoHand
    BY <2>1 DEF Put
  <2>4. /\ cuckoo' \in Filters
        /\ \A c \in Numbers, g \in Fingerprints :
             /\ Copies(cuckoo, c, g) \in Nat
             /\ Copies(cuckoo', c, g) = Copies(cuckoo, c, g) + OneIf(fp = g /\ x \in Pair(c, g))
        /\ Held(cuckoo) \in Int /\ Held(cuckoo') = Held(cuckoo) + 1
    <3>1. PutIn(cuckoo, cuckoo', x, fp)
      BY <1>1, <2>2, <2>3 DEF PutIn, CuckooTypes
    <3>2. QED
      BY <3>1, PutInBucket
  <2>5. LockIsFree'
    BY <2>3 DEF LockIsFree
  <2>6. CuckooTypes'
    BY <1>1, <1>2, <1>3, <2>3, <2>4 DEF CuckooTypes
  <2>7. CountIsRight'
    <3>1. OneIf(~LockIsFree) = 0 /\ OneIf(~LockIsFree)' = 0
      BY <1>1, <2>5 DEF OneIf
    <3>2. /\ count = SumOver(members, Items) - lost - OneIf(~LockIsFree)
          /\ count = Held(cuckoo) /\ lost \in Nat
      BY <1>1 DEF CuckooInv, CountIsRight, CuckooTypes
    <3>3. /\ count' = SumOver(members', Items) - lost' - OneIf(~LockIsFree)'
          /\ count' = Held(cuckoo')
      BY <1>2, <1>4, <2>3, <2>4, <3>1, <3>2
    <3>4. QED
      BY <3>3 DEF CountIsRight
  <2>8. ASSUME lost = 0 PROVE PairsAreComplete'
    <3>1. ASSUME NEW c \in Numbers, NEW g \in Fingerprints
          PROVE  Copies(cuckoo', c, g) + OneIf(InHand(c, g)') = SumOver(members', Seekers(c, g))
      <4>1. OneIf(InHand(c, g)) = 0 /\ OneIf(InHand(c, g)') = 0
        BY <1>1, <2>5 DEF InHand, OneIf
      <4>2. Copies(cuckoo, c, g) + OneIf(InHand(c, g)) = SumOver(members, Seekers(c, g))
        BY <2>8 DEF CuckooInv, PairsAreComplete
      <4>3. OneIf(fp = g /\ x \in Pair(c, g)) = OneIf(fp = g /\ b \in Pair(c, g))
        BY <2>2 DEF OneIf
      <4>4. OneIf(fp = g /\ b \in Pair(c, g)) \in Nat
        BY DEF OneIf
      <4>5. QED
        BY <1>5, <2>4, <4>1, <4>2, <4>3, <4>4
    <3>2. QED
      BY <3>1 DEF PairsAreComplete
  <2>9. QED
    BY <1>2, <2>6, <2>7, <2>8 DEF CuckooInv
<1>7. CASE hand' = entry /\ UNCHANGED <<cuckoo, count>>
  <2>1. entry \in [fp : Fingerprints, at : Numbers, left : Nat]
    BY <1>1, SketchAssumption
  <2>2. ~LockIsFree' /\ hand'.fp = fp /\ hand'.at = b
    BY <1>1, <1>7, <2>1, HandIsARecord DEF LockIsFree
  <2>3. CuckooTypes'
    BY <1>1, <1>2, <1>3, <1>7, <2>1 DEF CuckooTypes
  <2>4. Held(cuckoo') = Held(cuckoo)
    BY <1>7
  <2>5. CountIsRight'
    BY <1>1, <1>2, <1>4, <1>7, <2>2, <2>4 DEF CuckooInv, CountIsRight, CuckooTypes, OneIf
  <2>6. ASSUME lost = 0 PROVE PairsAreComplete'
    <3>1. ASSUME NEW c \in Numbers, NEW g \in Fingerprints
          PROVE  Copies(cuckoo', c, g) + OneIf(InHand(c, g)') = SumOver(members', Seekers(c, g))
      <4>1. /\ OneIf(InHand(c, g)) = 0
            /\ OneIf(InHand(c, g)') = OneIf(fp = g /\ b \in Pair(c, g))
            /\ OneIf(fp = g /\ b \in Pair(c, g)) \in Nat
        BY <1>1, <2>2 DEF InHand, OneIf
      <4>2. Copies(cuckoo, c, g) + OneIf(InHand(c, g)) = SumOver(members, Seekers(c, g))
        BY <2>6 DEF CuckooInv, PairsAreComplete
      <4>3. Copies(cuckoo', c, g) = Copies(cuckoo, c, g) /\ Copies(cuckoo, c, g) \in Nat
        BY <1>1, <1>7, CopiesAreNumbers DEF CuckooTypes
      <4>4. QED
        BY <1>5, <4>1, <4>2, <4>3
    <3>2. QED
      BY <3>1 DEF PairsAreComplete
  <2>7. QED
    BY <1>2, <2>3, <2>5, <2>6 DEF CuckooInv
<1>8. QED
  BY <1>2, <1>6, <1>7

\* The fingerprint in hand takes the place of another one in its bucket.
Swapped(p) == [cuckoo EXCEPT ![hand.at][p] = hand.fp]

LEMMA Swapping ==
  ASSUME CuckooTypes, ~LockIsFree, NEW p \in DOMAIN cuckoo[hand.at]
  PROVE  LET swapped == Swapped(p) IN
         /\ swapped \in Filters
         /\ cuckoo[hand.at][p] \in Fingerprints
         /\ \A b \in Numbers, g \in Fingerprints :
              /\ Copies(cuckoo, b, g) \in Nat
              /\ Copies(swapped, b, g) + OneIf(cuckoo[hand.at][p] = g /\ hand.at \in Pair(b, g))
                   = Copies(cuckoo, b, g) + OneIf(InHand(b, g))
         /\ Held(swapped) \in Int /\ Held(swapped) = Held(cuckoo)
<1> DEFINE swapped == Swapped(p)
           c == hand.at
           list == cuckoo[c]
           victim == list[p]
<1>1. c \in Numbers /\ hand.fp \in Fingerprints /\ cuckoo \in Filters
  BY HandIsARecord DEF CuckooTypes
<1>2. list \in Seq(Fingerprints) /\ Len(list) \in Nat /\ p \in 1..Len(list)
  <2>1. list \in Seq(Fingerprints)
    BY <1>1 DEF Filters
  <2>2. QED
    BY <2>1, LenProperties
<1>3. victim \in Fingerprints
  BY <1>2, ElementOfSeq
<1> DEFINE new == [list EXCEPT ![p] = hand.fp]
<1>4. /\ new \in Seq(Fingerprints) /\ Len(new) = Len(list)
      /\ \A g : Times(new, g) = Times(list, g) + OneIf(hand.fp = g) - OneIf(victim = g)
  BY <1>1, <1>2, TimesSwapped
<1>5. swapped = [cuckoo EXCEPT ![c] = new]
  BY DEF Swapped
<1> HIDE DEF new, list, victim, swapped
<1>6. swapped \in Filters /\ swapped[c] = new
  BY <1>1, <1>4, <1>5 DEF Filters
<1>7. OnlyChanges(cuckoo, swapped, c)
  BY <1>1, <1>5, <1>6 DEF OnlyChanges, Filters
<1>8. ASSUME NEW b \in Numbers, NEW g \in Fingerprints
      PROVE  /\ Copies(cuckoo, b, g) \in Nat
             /\ Copies(swapped, b, g) + OneIf(victim = g /\ c \in Pair(b, g))
                  = Copies(cuckoo, b, g) + OneIf(InHand(b, g))
  <2> DEFINE d == OneIf(hand.fp = g) - OneIf(victim = g)
  <2>1. OneIf(hand.fp = g) \in {0, 1} /\ OneIf(victim = g) \in {0, 1} /\ d \in Int
    BY DEF OneIf
  <2>2. Times(list, g) \in Nat
    BY <1>2, SpotsAreFinite
  <2>3. Times(new, g) = Times(list, g) + OneIf(hand.fp = g) - OneIf(victim = g)
    BY <1>4
  <2>4. Times(swapped[c], g) = Times(cuckoo[c], g) + d
    BY <1>6, <2>1, <2>2, <2>3 DEF list
  <2> HIDE DEF d
  <2>5. /\ Copies(cuckoo, b, g) \in Nat
        /\ Copies(swapped, b, g) = Copies(cuckoo, b, g) + (IF c \in Pair(b, g) THEN d ELSE 0)
    BY <1>7, <2>1, <2>4, CopiesChanged
  <2>6. CASE c \in Pair(b, g)
    <3>1. /\ OneIf(InHand(b, g)) = OneIf(hand.fp = g)
          /\ OneIf(victim = g /\ c \in Pair(b, g)) = OneIf(victim = g)
      BY <2>6 DEF InHand, OneIf
    <3>2. QED
      BY <2>1, <2>5, <2>6, <3>1 DEF d
  <2>7. CASE c \notin Pair(b, g)
    <3>1. /\ OneIf(InHand(b, g)) = 0
          /\ OneIf(victim = g /\ c \in Pair(b, g)) = 0
      BY <2>7 DEF InHand, OneIf
    <3>2. QED
      BY <2>5, <2>7, <3>1
  <2>8. QED
    BY <2>6, <2>7
<1>9. Held(cuckoo) \in Int /\ Held(swapped) = Held(cuckoo) + (Len(swapped[c]) - Len(cuckoo[c]))
  BY <1>7, LengthsChanged
<1>10. Len(swapped[c]) = Len(cuckoo[c]) /\ Len(cuckoo[c]) \in Nat
  BY <1>2, <1>4, <1>6 DEF list
<1>11. QED
  <2>1. Held(swapped) = Held(cuckoo)
    BY <1>9, <1>10
  <2>2. QED
    BY <1>3, <1>6, <1>8, <1>9, <2>1, Zenon DEF victim, list, swapped

LEMMA KickStep ==
  ASSUME CuckooInv, Kick
  PROVE  CuckooInv'
<1> DEFINE b == hand.at
<1>1. CuckooTypes /\ ~LockIsFree /\ b \in Numbers /\ hand.left \in Nat \ {0}
  BY HandIsARecord DEF Kick, CuckooInv
<1>2. PICK p \in DOMAIN cuckoo[b] :
        LET victim == cuckoo[b][p]
            other == Alternate(b, victim)
            swapped == [cuckoo EXCEPT ![b][p] = hand.fp]
        IN \/ Put(swapped, other, victim)
           \/ /\ cuckoo' = swapped
              /\ hand' = [fp |-> victim, at |-> b, left |-> hand.left - 1]
              /\ UNCHANGED count
  BY DEF Kick
<1>3. UNCHANGED <<members, lost>>
  BY DEF Kick
<1> DEFINE victim == cuckoo[b][p]
           other == Alternate(b, victim)
           swapped == Swapped(p)
           left == [fp |-> victim, at |-> b, left |-> hand.left - 1]
<1>4. /\ swapped \in Filters /\ victim \in Fingerprints
      /\ \A c \in Numbers, g \in Fingerprints :
           /\ Copies(cuckoo, c, g) \in Nat
           /\ Copies(swapped, c, g) + OneIf(victim = g /\ b \in Pair(c, g))
                = Copies(cuckoo, c, g) + OneIf(InHand(c, g))
      /\ Held(swapped) \in Int /\ Held(swapped) = Held(cuckoo)
  BY <1>1, Swapping
<1>5. \/ Put(swapped, other, victim)
      \/ cuckoo' = swapped /\ hand' = left /\ UNCHANGED count
  BY <1>2 DEF Swapped
<1>6. left \in [fp : Fingerprints, at : Numbers, left : Nat]
  BY <1>1, <1>4
<1>7. left.fp = victim /\ left.at = b
  OBVIOUS
<1>8. other \in Numbers /\ other \in Pair(b, victim)
  BY <1>1, AlternateReturns DEF Pair
<1> HIDE DEF victim, other, swapped, left, b
<1>9. /\ count = SumOver(members, Items) - lost - 1 /\ lost \in Nat
      /\ count = Held(cuckoo) /\ count \in Int
  <2>1. OneIf(~LockIsFree) = 1
    BY <1>1 DEF OneIf
  <2>2. QED
    BY <2>1 DEF CuckooInv, CountIsRight, CuckooTypes
<1>10. SumOver(members, Items) \in Nat
  BY SketchAssumption, SumIsNat DEF CuckooInv, CuckooTypes
<1>11. ASSUME lost = 0, NEW c \in Numbers, NEW g \in Fingerprints
       PROVE  Copies(swapped, c, g) + OneIf(victim = g /\ b \in Pair(c, g))
                = SumOver(members, Seekers(c, g))
  BY <1>4, <1>11 DEF CuckooInv, PairsAreComplete
<1>12. CASE Put(swapped, other, victim)
  <2>1. PutIn(swapped, cuckoo', other, victim) /\ count' = count + 1 /\ hand' = NoHand
    BY <1>4, <1>8, <1>12 DEF Put, PutIn
  <2>2. /\ cuckoo' \in Filters
        /\ \A c \in Numbers, g \in Fingerprints :
             /\ Copies(swapped, c, g) \in Nat
             /\ Copies(cuckoo', c, g) = Copies(swapped, c, g) + OneIf(victim = g /\ other \in Pair(c, g))
        /\ Held(cuckoo') = Held(swapped) + 1
    BY <2>1, PutInBucket
  <2>3. LockIsFree'
    BY <2>1 DEF LockIsFree
  <2>4. CuckooTypes'
    BY <1>1, <1>3, <1>9, <2>1, <2>2 DEF CuckooTypes
  <2>5. CountIsRight'
    <3>1. OneIf(~LockIsFree)' = 0
      BY <2>3 DEF OneIf
    <3>2. /\ count' = SumOver(members', Items) - lost' - OneIf(~LockIsFree)'
          /\ count' = Held(cuckoo')
      BY <1>3, <1>4, <1>9, <1>10, <2>1, <2>2, <3>1
    <3>3. QED
      BY <3>2 DEF CountIsRight
  <2>6. ASSUME lost = 0 PROVE PairsAreComplete'
    <3>1. ASSUME NEW c \in Numbers, NEW g \in Fingerprints
          PROVE  Copies(cuckoo', c, g) + OneIf(InHand(c, g)') = SumOver(members', Seekers(c, g))
      <4>1. OneIf(InHand(c, g)') = 0
        BY <2>3 DEF InHand, OneIf
      <4>2. other \in Pair(c, victim) <=> b \in Pair(c, victim)
        BY <1>1, <1>8, PairsAreClasses
      <4>3. OneIf(victim = g /\ other \in Pair(c, g)) = OneIf(victim = g /\ b \in Pair(c, g))
        BY <4>2 DEF OneIf
      <4>4. OneIf(victim = g /\ b \in Pair(c, g)) \in Nat
        BY DEF OneIf
      <4>5. Copies(swapped, c, g) + OneIf(victim = g /\ b \in Pair(c, g))
              = SumOver(members, Seekers(c, g))
        BY <1>11, <2>6
      <4>6. QED
        BY <1>3, <2>2, <4>1, <4>3, <4>4, <4>5
    <3>2. QED
      BY <3>1 DEF PairsAreComplete
  <2>7. QED
    BY <1>3, <2>4, <2>5, <2>6 DEF CuckooInv
<1>13. CASE cuckoo' = swapped /\ hand' = left /\ UNCHANGED count
  <2>1. ~LockIsFree' /\ hand'.fp = victim /\ hand'.at = b
    BY <1>1, <1>6, <1>7, <1>13, HandIsARecord DEF LockIsFree
  <2>2. CuckooTypes'
    BY <1>1, <1>3, <1>4, <1>6, <1>9, <1>13 DEF CuckooTypes
  <2>3. CountIsRight'
    <3>1. OneIf(~LockIsFree)' = 1
      BY <2>1 DEF OneIf
    <3>2. /\ count' = SumOver(members', Items) - lost' - OneIf(~LockIsFree)'
          /\ count' = Held(cuckoo')
      BY <1>3, <1>4, <1>9, <1>13, <3>1
    <3>3. QED
      BY <3>2 DEF CountIsRight
  <2>4. ASSUME lost = 0 PROVE PairsAreComplete'
    <3>1. ASSUME NEW c \in Numbers, NEW g \in Fingerprints
          PROVE  Copies(cuckoo', c, g) + OneIf(InHand(c, g)') = SumOver(members', Seekers(c, g))
      <4>1. OneIf(InHand(c, g)') = OneIf(victim = g /\ b \in Pair(c, g))
        BY <2>1 DEF InHand, OneIf
      <4>2. QED
        BY <1>3, <1>11, <1>13, <2>4, <4>1
    <3>2. QED
      BY <3>1 DEF PairsAreComplete
  <2>5. QED
    BY <1>3, <2>2, <2>3, <2>4 DEF CuckooInv
<1>14. QED
  BY <1>5, <1>12, <1>13

LEMMA GiveUpStep ==
  ASSUME CuckooInv, GiveUp
  PROVE  CuckooInv'
<1>1. /\ ~LockIsFree /\ hand' = NoHand /\ lost' = lost + 1
      /\ UNCHANGED <<cuckoo, count, members>>
  BY DEF GiveUp
<1>2. LockIsFree'
  BY <1>1 DEF LockIsFree
<1>3. CuckooTypes' /\ lost \in Nat /\ lost' # 0
  BY <1>1 DEF CuckooInv, CuckooTypes
<1>4. SumOver(members, Items) \in Nat
  BY SketchAssumption, SumIsNat DEF CuckooInv, CuckooTypes
<1>5. OneIf(~LockIsFree) = 1 /\ OneIf(~LockIsFree)' = 0
  BY <1>1, <1>2 DEF OneIf
<1>6. /\ count' = SumOver(members', Items) - lost' - OneIf(~LockIsFree)'
      /\ count' = Held(cuckoo')
  BY <1>1, <1>3, <1>4, <1>5 DEF CuckooInv, CountIsRight
<1>7. CountIsRight'
  BY <1>6 DEF CountIsRight
<1>8. QED
  BY <1>3, <1>7 DEF CuckooInv

LEMMA FirstOccurrence ==
  ASSUME NEW S, NEW s \in Seq(S), NEW y, \E p \in DOMAIN s : s[p] = y
  PROVE  \E p \in 1..Len(s) : s[p] = y /\ Removed(s, y) = RemoveAt(s, p)
<1>1. Len(s) \in Nat /\ DOMAIN s = 1..Len(s)
  BY LenProperties
<1> DEFINE B == Spots(s, y)
<1>2. B \subseteq Nat /\ B # {}
  BY <1>1 DEF Spots
<1>3. PICK n \in B : \A m \in B : n <= m
  BY <1>2, LeastOf
<1>4. n \in DOMAIN s /\ s[n] = y /\ \A o \in 1..(n - 1) : s[o] # y
  <2>1. n \in 1..Len(s) /\ s[n] = y
    BY DEF Spots
  <2>2. ASSUME NEW o \in 1..(n - 1), s[o] = y PROVE FALSE
    <3>1. o \in 1..Len(s) /\ o < n
      BY <1>1, <2>1
    <3>2. o \in B
      BY <2>2, <3>1 DEF Spots
    <3>3. QED
      BY <1>3, <2>1, <3>1, <3>2
  <2>3. QED
    BY <1>1, <2>1, <2>2
<1> DEFINE q == CHOOSE p \in DOMAIN s : s[p] = y /\ \A o \in 1..(p - 1) : s[o] # y
<1>5. q \in DOMAIN s /\ s[q] = y
  BY <1>4
<1>6. Removed(s, y) = RemoveAt(s, q)
  BY DEF Removed
<1> HIDE DEF q
<1>7. QED
  BY <1>1, <1>5, <1>6

LEMMA RemoveMemberStep ==
  ASSUME CuckooInv, NEW i \in Items, RemoveMember(i)
  PROVE  CuckooInv'
<1> DEFINE fp == Fingerprint[i]
           b == Bucket[i]
           x == IF Holds(b, fp) THEN b ELSE Alternate(b, fp)
<1>1. /\ fp \in Fingerprints /\ b \in Numbers /\ members[i] \in Nat
      /\ CuckooTypes /\ LockIsFree /\ cuckoo \in Filters
  BY SketchAssumption DEF Fingerprints, Numbers, CuckooInv, CuckooTypes, RemoveMember
<1>2. /\ Holds(x, fp)
      /\ cuckoo' = [cuckoo EXCEPT ![x] = Removed(@, fp)]
      /\ count' = count - 1 /\ hand' = hand
      /\ IF members[i] > 0
         THEN members' = [members EXCEPT ![i] = @ - 1] /\ UNCHANGED lost
         ELSE lost' = lost + 1 /\ UNCHANGED members
  BY DEF RemoveMember, IsMember
<1>3. x \in Numbers /\ x \in Pair(b, fp)
  BY <1>1, AlternateReturns DEF Pair
<1> HIDE DEF fp, b, x
<1>4. cuckoo[x] \in Seq(Fingerprints) /\ Len(cuckoo[x]) \in Nat
  <2>1. cuckoo[x] \in Seq(Fingerprints)
    BY <1>1, <1>3 DEF Filters
  <2>2. QED
    BY <2>1, LenProperties
<1>5. PICK p \in 1..Len(cuckoo[x]) :
        cuckoo[x][p] = fp /\ Removed(cuckoo[x], fp) = RemoveAt(cuckoo[x], p)
  BY <1>2, <1>4, FirstOccurrence DEF Holds
<1> DEFINE new == RemoveAt(cuckoo[x], p)
<1>6. /\ new \in Seq(Fingerprints) /\ Len(new) = Len(cuckoo[x]) - 1
      /\ \A g : Times(new, g) = Times(cuckoo[x], g) - OneIf(fp = g)
  BY <1>4, <1>5, EntryRemoved, TimesRemoved
<1>7. cuckoo' = [cuckoo EXCEPT ![x] = new]
  BY <1>2, <1>5
<1> HIDE DEF new
<1>8. cuckoo' \in Filters /\ cuckoo'[x] = new
  BY <1>1, <1>3, <1>6, <1>7 DEF Filters
<1>9. OnlyChanges(cuckoo, cuckoo', x)
  BY <1>1, <1>3, <1>7, <1>8 DEF OnlyChanges, Filters
<1>10. ASSUME NEW c \in Numbers, NEW g \in Fingerprints
       PROVE  /\ Copies(cuckoo, c, g) \in Nat
              /\ Copies(cuckoo', c, g) = Copies(cuckoo, c, g) - OneIf(fp = g /\ b \in Pair(c, g))
  <2> DEFINE d == -OneIf(fp = g)
  <2>1. OneIf(fp = g) \in {0, 1} /\ d \in Int
    BY DEF OneIf
  <2>2. Times(cuckoo[x], g) \in Nat
    BY <1>4, SpotsAreFinite
  <2>3. Times(new, g) = Times(cuckoo[x], g) - OneIf(fp = g)
    BY <1>6
  <2>4. Times(cuckoo'[x], g) = Times(cuckoo[x], g) + d
    BY <1>8, <2>1, <2>2, <2>3
  <2> HIDE DEF d
  <2>5. /\ Copies(cuckoo, c, g) \in Nat
        /\ Copies(cuckoo', c, g) = Copies(cuckoo, c, g) + (IF x \in Pair(c, g) THEN d ELSE 0)
    BY <1>9, <2>1, <2>4, CopiesChanged
  <2>6. fp = g => (x \in Pair(c, g) <=> b \in Pair(c, g))
    BY <1>1, <1>3, PairsAreClasses
  <2>7. CASE fp = g /\ b \in Pair(c, g)
    <3>1. OneIf(fp = g) = 1 /\ OneIf(fp = g /\ b \in Pair(c, g)) = 1
      BY <2>7 DEF OneIf
    <3>2. QED
      BY <2>5, <2>6, <2>7, <3>1 DEF d
  <2>8. CASE ~(fp = g /\ b \in Pair(c, g))
    <3>1. OneIf(fp = g /\ b \in Pair(c, g)) = 0
      BY <2>8 DEF OneIf
    <3>2. (IF x \in Pair(c, g) THEN d ELSE 0) = 0
      <4>1. CASE fp = g
        BY <2>6, <2>8, <4>1
      <4>2. CASE fp # g
        <5>1. OneIf(fp = g) = 0
          BY <4>2 DEF OneIf
        <5>2. QED
          BY <5>1 DEF d
      <4>3. QED
        BY <4>1, <4>2
    <3>3. QED
      BY <2>5, <3>1, <3>2
  <2>9. QED
    BY <2>7, <2>8
<1>11. Held(cuckoo) \in Int /\ Held(cuckoo') = Held(cuckoo) - 1
  <2>1. Held(cuckoo) \in Int /\ Held(cuckoo') = Held(cuckoo) + (Len(cuckoo'[x]) - Len(cuckoo[x]))
    BY <1>9, LengthsChanged
  <2>2. Len(cuckoo'[x]) = Len(cuckoo[x]) - 1
    BY <1>6, <1>8
  <2>3. QED
    BY <1>4, <2>1, <2>2
<1>12. LockIsFree' /\ OneIf(~LockIsFree) = 0 /\ OneIf(~LockIsFree)' = 0
  BY <1>1, <1>2 DEF LockIsFree, OneIf
<1>13. SumOver(members, Items) \in Nat
  BY SketchAssumption, SumIsNat DEF CuckooInv, CuckooTypes
<1>14. /\ count = SumOver(members, Items) - lost /\ count = Held(cuckoo)
       /\ lost \in Nat /\ count \in Int /\ members \in [Items -> Nat]
  <2>1. /\ count = SumOver(members, Items) - lost - OneIf(~LockIsFree) /\ count = Held(cuckoo)
        /\ lost \in Nat /\ count \in Int /\ members \in [Items -> Nat]
    BY DEF CuckooInv, CountIsRight, CuckooTypes
  <2>2. QED
    BY <1>12, <1>13, <2>1
<1>15. CASE members[i] > 0
  <2> DEFINE n == members[i] - 1
  <2>1. n \in Nat /\ n - members[i] = -1 /\ members' = [members EXCEPT ![i] = n] /\ lost' = lost
    BY <1>1, <1>2, <1>15
  <2> HIDE DEF n
  <2>2. ASSUME NEW S, S \subseteq Items
        PROVE  /\ SumOver(members, S) \in Nat
               /\ i \in S => SumOver(members', S) = SumOver(members, S) + (n - members[i])
               /\ i \notin S => SumOver(members', S) = SumOver(members, S)
    BY <1>14, <2>1, <2>2, MembersChanged
  <2>3. CuckooTypes'
    BY <1>1, <1>2, <1>8, <1>14, <2>1 DEF CuckooTypes
  <2>4. SumOver(members', Items) = SumOver(members, Items) - 1
    BY <1>13, <2>1, <2>2
  <2>5. CountIsRight'
    <3>1. /\ count' = SumOver(members', Items) - lost' - OneIf(~LockIsFree)'
          /\ count' = Held(cuckoo')
      BY <1>2, <1>11, <1>12, <1>14, <1>13, <2>1, <2>4
    <3>2. QED
      BY <3>1 DEF CountIsRight
  <2>6. ASSUME lost = 0 PROVE PairsAreComplete'
    <3>1. ASSUME NEW c \in Numbers, NEW g \in Fingerprints
          PROVE  Copies(cuckoo', c, g) + OneIf(InHand(c, g)') = SumOver(members', Seekers(c, g))
      <4> DEFINE S == Seekers(c, g)
      <4>1. OneIf(InHand(c, g)) = 0 /\ OneIf(InHand(c, g)') = 0
        BY <1>1, <1>12 DEF InHand, OneIf
      <4>2. Copies(cuckoo, c, g) + OneIf(InHand(c, g)) = SumOver(members, S)
        BY <2>6 DEF CuckooInv, PairsAreComplete
      <4>3. S \subseteq Items /\ (i \in S <=> fp = g /\ b \in Pair(c, g))
        BY DEF Seekers, fp, b
      <4> HIDE DEF S
      <4>4. /\ SumOver(members, S) \in Nat
            /\ OneIf(fp = g /\ b \in Pair(c, g)) \in Nat
            /\ SumOver(members', S) = SumOver(members, S) - OneIf(fp = g /\ b \in Pair(c, g))
        <5>1. CASE i \in S
          BY <2>1, <2>2, <4>3, <5>1 DEF OneIf
        <5>2. CASE i \notin S
          BY <2>2, <4>3, <5>2 DEF OneIf
        <5>3. QED
          BY <5>1, <5>2
      <4>5. QED
        BY <1>10, <4>1, <4>2, <4>4 DEF S
    <3>2. QED
      BY <3>1 DEF PairsAreComplete
  <2>7. QED
    BY <2>1, <2>3, <2>5, <2>6 DEF CuckooInv
<1>16. CASE ~(members[i] > 0)
  <2>1. lost' = lost + 1 /\ members' = members /\ lost' # 0
    BY <1>2, <1>14, <1>16
  <2>2. CuckooTypes'
    BY <1>1, <1>2, <1>8, <1>14, <2>1 DEF CuckooTypes
  <2>3. CountIsRight'
    <3>1. /\ count' = SumOver(members', Items) - lost' - OneIf(~LockIsFree)'
          /\ count' = Held(cuckoo')
      BY <1>2, <1>11, <1>12, <1>14, <1>13, <2>1
    <3>2. QED
      BY <3>1 DEF CountIsRight
  <2>4. QED
    BY <2>1, <2>2, <2>3 DEF CuckooInv
<1>17. QED
  BY <1>15, <1>16

\* While no add is under way and nothing is lost, each member is found.
LEMMA MembersAreFound ==
  ASSUME CuckooInv, LockIsFree, lost = 0, NEW i \in Items, members[i] > 0
  PROVE  IsMember(i)
<1> DEFINE fp == Fingerprint[i]
           b == Bucket[i]
           o == Alternate(b, fp)
           S == Seekers(b, fp)
<1>1. /\ fp \in Fingerprints /\ b \in Numbers /\ o \in Numbers
      /\ members \in [Items -> Nat] /\ cuckoo \in Filters
  BY SketchAssumption, AlternateReturns DEF Fingerprints, Numbers, CuckooInv, CuckooTypes
<1>2. i \in S /\ S \subseteq Items
  BY DEF Seekers, Pair
<1>3. IsFiniteSet(S) /\ IsFiniteSet(S \ {i})
  BY <1>2, SketchAssumption, FS_Subset
<1> HIDE DEF S
<1>4. SumOver(members, S) > 0
  <2>1. \A j \in S : members[j] \in Int
    BY <1>1, <1>2
  <2>2. \A j \in S \ {i} : members[j] \in Nat
    BY <1>1, <1>2
  <2>3. SumOver(members, S) = members[i] + SumOver(members, S \ {i})
    BY <1>2, <1>3, <2>1, SumAny
  <2>4. SumOver(members, S \ {i}) \in Nat
    BY <1>3, <2>2, SumIsNat
  <2>5. QED
    BY <1>1, <2>3, <2>4
<1>5. Copies(cuckoo, b, fp) > 0
  <2>1. OneIf(InHand(b, fp)) = 0
    BY DEF InHand, OneIf
  <2>2. Copies(cuckoo, b, fp) \in Nat
    BY <1>1, CopiesAreNumbers
  <2>3. Copies(cuckoo, b, fp) + OneIf(InHand(b, fp)) = SumOver(members, S)
    BY <1>1 DEF CuckooInv, PairsAreComplete, S
  <2>4. QED
    BY <1>4, <2>1, <2>2, <2>3
<1>6. \A a \in Numbers : Times(cuckoo[a], fp) \in Nat /\ (Times(cuckoo[a], fp) > 0 => Holds(a, fp))
  BY <1>1, SpotsAreFinite DEF Filters, Holds
<1> HIDE DEF fp, b
<1>7. Times(cuckoo[b], fp) > 0 \/ Times(cuckoo[o], fp) > 0
  BY <1>1, <1>5, <1>6 DEF Copies
<1>8. Holds(b, fp) \/ Holds(o, fp)
  BY <1>1, <1>6, <1>7
<1>9. QED
  BY <1>8 DEF IsMember, fp, b

-----------------------------------------------------------------------------
(* The sketches together *)

SketchInv == CountsInv /\ CuckooInv /\ HllInv

LEMMA SumOfFunction ==
  ASSUME NEW g
  PROVE  SumFunction(g) = SumOver(g, DOMAIN g)
BY Zenon DEF SumFunction, SumFunctionOnSet, FoldFunctionOnSet, SumOver, MapThenSumSet

LEMMA SketchSteps ==
  ASSUME [DetectorsNext]_detectorsVars
  PROVE  \/ UNCHANGED sketchVars
         \/ StartMerge \/ MergeRegister \/ Kick \/ GiveUp
         \/ \E i \in Items : AddItem(i) \/ AddMember(i) \/ RemoveMember(i)
         \/ \E h \in 1..2, i \in Items : CountIn(h, i)
BY DEF DetectorsNext, DetectorsTick, detectorsVars

LEMMA CountsUntouched == ASSUME CountsInv, UNCHANGED countVars PROVE CountsInv'
BY DEF CountsInv, countVars

LEMMA CuckooUntouched == ASSUME CuckooInv, UNCHANGED cuckooVars PROVE CuckooInv'
<1>1. UNCHANGED <<cuckoo, count, hand, members, lost>>
  BY DEF cuckooVars
<1>2. LockIsFree' = LockIsFree /\ CuckooTypes' = CuckooTypes
  BY <1>1 DEF LockIsFree, CuckooTypes
<1>3. \A b, fp : InHand(b, fp)' = InHand(b, fp)
  BY <1>1, <1>2 DEF InHand
<1>4. CountIsRight' = CountIsRight
  BY <1>1, <1>2, Zenon DEF CountIsRight
<1>5. PairsAreComplete => PairsAreComplete'
  BY <1>1, <1>3 DEF PairsAreComplete
<1>6. QED
  BY <1>1, <1>2, <1>4, <1>5 DEF CuckooInv

LEMMA HllUntouched == ASSUME HllInv, UNCHANGED hllVars PROVE HllInv'
BY DEF HllInv, HllTypes, hllVars

LEMMA InitSketches == DetectorsInit => SketchInv
<1> SUFFICES ASSUME SketchesInit PROVE SketchInv
  BY DEF DetectorsInit
<1>1. CountsInv
  BY CellsOfItems DEF SketchesInit, CountsInv, Cells
<1>2. HllInv
  <2>1. 0 \in 0..Cardinality(Registers)
    BY RegistersAreNumbers
  <2>2. QED
    BY <2>1 DEF SketchesInit, HllInv, HllTypes
<1>3. CuckooInv
  <2>1. /\ cuckoo = [b \in Numbers |-> <<>>] /\ count = 0 /\ hand = NoHand
        /\ members = [i \in Items |-> 0] /\ lost = 0
    BY DEF SketchesInit, Numbers
  <2>2. /\ <<>> \in Seq(Fingerprints) /\ Len(<<>>) = 0
        /\ \A x : Spots(<<>>, x) = {}
    BY EmptySeq DEF Spots
  <2>3. CuckooTypes
    BY <2>1, <2>2 DEF CuckooTypes, Filters
  <2>4. \A S \in SUBSET Items : SumOver(members, S) = 0
    <3> TAKE S \in SUBSET Items
    <3>1. IsFiniteSet(S) /\ \A i \in S : members[i] = 0
      BY <2>1, SketchAssumption, FS_Subset
    <3>2. QED
      BY <3>1, NothingSums
  <2>5. Held(cuckoo) = 0
    <3> DEFINE g == [b \in Numbers |-> Len(cuckoo[b])]
    <3>1. IsFiniteSet(Numbers) /\ \A b \in Numbers : g[b] = 0
      BY <2>1, <2>2, SketchAssumption, FS_SUBSET DEF Numbers
    <3> HIDE DEF g
    <3>2. SumOver(g, Numbers) = 0
      BY <3>1, NothingSums
    <3>3. QED
      BY <3>2 DEF Held, g
  <2>6. LockIsFree /\ OneIf(~LockIsFree) = 0
    BY <2>1 DEF LockIsFree, OneIf
  <2>7. CountIsRight
    BY <2>1, <2>4, <2>5, <2>6 DEF CountIsRight
  <2>8. PairsAreComplete
    <3>1. ASSUME NEW b \in Numbers, NEW fp \in Fingerprints
          PROVE  Copies(cuckoo, b, fp) + OneIf(InHand(b, fp)) = SumOver(members, Seekers(b, fp))
      <4>1. \A a \in Numbers : Times(cuckoo[a], fp) = 0
        BY <2>1, <2>2, FS_EmptySet DEF Times
      <4>2. Copies(cuckoo, b, fp) = 0
        BY <4>1, AlternateReturns DEF Copies
      <4>3. OneIf(InHand(b, fp)) = 0
        BY <2>6 DEF InHand, OneIf
      <4>4. SumOver(members, Seekers(b, fp)) = 0
        BY <2>4 DEF Seekers
      <4>5. QED
        BY <4>2, <4>3, <4>4
    <3>2. QED
      BY <3>1 DEF PairsAreComplete
  <2>9. QED
    BY <2>3, <2>7, <2>8 DEF CuckooInv
<1>4. QED
  BY <1>1, <1>2, <1>3 DEF SketchInv

LEMMA SketchStep ==
  ASSUME SketchInv, [DetectorsNext]_detectorsVars
  PROVE  SketchInv'
<1>1. CASE UNCHANGED sketchVars
  BY <1>1, CountsUntouched, CuckooUntouched, HllUntouched DEF sketchVars, SketchInv
<1>2. CASE StartMerge
  BY <1>2, CountsUntouched, CuckooUntouched, StartMergeStep DEF StartMerge, SketchInv
<1>3. CASE MergeRegister
  BY <1>3, CountsUntouched, CuckooUntouched, MergeRegisterStep DEF MergeRegister, SketchInv
<1>4. CASE Kick
  BY <1>4, CountsUntouched, HllUntouched, KickStep DEF Kick, SketchInv
<1>5. CASE GiveUp
  BY <1>5, CountsUntouched, HllUntouched, GiveUpStep DEF GiveUp, SketchInv
<1>6. ASSUME NEW i \in Items, AddItem(i) PROVE SketchInv'
  BY <1>6, CuckooUntouched, HllUntouched, AddItemStep DEF AddItem, SketchInv
<1>7. ASSUME NEW i \in Items, AddMember(i) PROVE SketchInv'
  BY <1>7, CountsUntouched, HllUntouched, AddMemberStep DEF AddMember, SketchInv
<1>8. ASSUME NEW i \in Items, RemoveMember(i) PROVE SketchInv'
  BY <1>8, CountsUntouched, HllUntouched, RemoveMemberStep DEF RemoveMember, SketchInv
<1>9. ASSUME NEW h \in 1..2, NEW i \in Items, CountIn(h, i) PROVE SketchInv'
  BY <1>9, CountsUntouched, CuckooUntouched, CountInStep DEF CountIn, SketchInv
<1>10. QED
  BY <1>1, <1>2, <1>3, <1>4, <1>5, <1>6, <1>7, <1>8, <1>9, SketchSteps

LEMMA SketchInvIsEnough == SketchInv => NothingIsForgotten
<1> SUFFICES ASSUME CountsInv, CuckooInv, HllInv PROVE NothingIsForgotten
  BY DEF SketchInv
<1>1. \A i \in Items : Estimate(i) >= added[i] /\ (added[i] > 0 => MightContain(i))
  BY CountsAreFound
<1>2. \A h \in 1..2 : \A i \in counted[h] : hll[h][Register[i]] >= Rank[i]
  BY DEF HllInv
<1>3. SumFunction(members) = SumOver(members, Items)
  <2>1. DOMAIN members = Items
    BY DEF CuckooInv, CuckooTypes
  <2>2. QED
    BY <2>1, SumOfFunction
<1>4. SumFunction([b \in DOMAIN cuckoo |-> Len(cuckoo[b])]) = Held(cuckoo)
  <2> DEFINE g == [b \in Numbers |-> Len(cuckoo[b])]
  <2>1. DOMAIN cuckoo = Numbers
    BY DEF CuckooInv, CuckooTypes, Filters
  <2>2. DOMAIN g = Numbers
    OBVIOUS
  <2> HIDE DEF g
  <2>3. SumFunction(g) = SumOver(g, Numbers)
    BY <2>2, SumOfFunction
  <2>4. QED
    BY <2>1, <2>3, Zenon DEF Held, g
<1>5. ASSUME LockIsFree PROVE count = SumFunction(members) - lost
  <2>1. /\ OneIf(~LockIsFree) = 0
        /\ count = SumOver(members, Items) - lost - OneIf(~LockIsFree)
    BY <1>5 DEF OneIf, CuckooInv, CountIsRight
  <2>2. lost \in Nat /\ SumOver(members, Items) \in Nat
    BY SketchAssumption, SumIsNat DEF CuckooInv, CuckooTypes
  <2>3. QED
    BY <1>3, <2>1, <2>2
<1>6. ASSUME LockIsFree, lost = 0, NEW i \in Items, members[i] > 0 PROVE IsMember(i)
  BY <1>6, MembersAreFound
<1>7. count = SumFunction([b \in DOMAIN cuckoo |-> Len(cuckoo[b])])
  BY <1>4 DEF CuckooInv, CountIsRight
<1>8. QED
  BY <1>1, <1>2, <1>5, <1>6, <1>7 DEF NothingIsForgotten

(***************************************************************************)
(* Nothing that was added is forgotten: a count is never too small, a      *)
(* merged HyperLogLog counts what both had, and a cuckoo filter that has   *)
(* lost nothing finds every member, wherever kicks and removals have moved *)
(* or left it; what it has lost it has lost one by one.                    *)
(***************************************************************************)
THEOREM NothingIsEverForgotten == DetectorsSpec => []NothingIsForgotten
<1>1. SketchInv /\ [DetectorsNext]_detectorsVars => SketchInv'
  BY SketchStep
<1>2. QED
  BY <1>1, InitSketches, SketchInvIsEnough, PTL DEF DetectorsSpec

-----------------------------------------------------------------------------
(* Lists in order of time, and their ends *)

Dated(S) == \A x \in S : x.at \in Int

InTimeOrder(s) == \A i, j \in 1..Len(s) : i <= j => s[i].at <= s[j].at

\* r is the end of s from time t on
IsSince(r, s, t) ==
  /\ Len(r) <= Len(s)
  /\ \A i \in 1..Len(r) : r[i] = s[i + (Len(s) - Len(r))] /\ r[i].at >= t
  /\ \A i \in 1..(Len(s) - Len(r)) : s[i].at < t

LEMMA DatesAreNumbers ==
  ASSUME NEW S, Dated(S), NEW s \in Seq(S)
  PROVE  Len(s) \in Nat /\ \A i \in 1..Len(s) : s[i] \in S /\ s[i].at \in Int
<1>1. Len(s) \in Nat /\ \A i \in 1..Len(s) : s[i] \in S
  BY LenProperties, ElementOfSeq
<1>2. QED
  BY <1>1 DEF Dated

LEMMA SinceIsAList ==
  ASSUME NEW S, NEW s \in Seq(S), NEW t
  PROVE  /\ Since(s, t) \in Seq(S)
         /\ Cardinality({i \in DOMAIN s : s[i].at < t}) \in 0..Len(s)
<1> DEFINE old == {i \in DOMAIN s : s[i].at < t}
<1>1. Len(s) \in Nat /\ DOMAIN s = 1..Len(s)
  BY LenProperties
<1>2. IsFiniteSet(1..Len(s)) /\ Cardinality(1..Len(s)) = Len(s)
  BY <1>1, SegmentSize
<1>3. old \in SUBSET (1..Len(s))
  BY <1>1
<1> HIDE DEF old
<1>4. IsFiniteSet(old) /\ Cardinality(old) <= Len(s)
  BY <1>2, <1>3, FS_Subset
<1>5. Cardinality(old) \in 0..Len(s)
  BY <1>1, <1>4, FS_CardinalityType
<1>6. SubSeq(s, 1 + Cardinality(old), Len(s)) \in Seq(S)
  BY <1>5, EntriesDropped
<1>7. QED
  BY <1>5, <1>6 DEF Since, old

LEMMA SinceIsTheEnd ==
  ASSUME NEW S, Dated(S), NEW s \in Seq(S), InTimeOrder(s), NEW t \in Int
  PROVE  Since(s, t) \in Seq(S) /\ IsSince(Since(s, t), s, t)
<1> DEFINE old == {i \in DOMAIN s : s[i].at < t}
           c == Cardinality(old)
<1>1. Len(s) \in Nat /\ DOMAIN s = 1..Len(s)
  BY LenProperties
<1>2. \A i \in 1..Len(s) : s[i].at \in Int
  BY DatesAreNumbers
<1>3. old \in SUBSET (1..Len(s)) /\ \A i \in old : \A j \in 1..i : j \in old
  <2>1. SUFFICES ASSUME NEW i \in old, NEW j \in 1..i PROVE j \in old
    BY <1>1
  <2>2. i \in 1..Len(s) /\ j \in 1..Len(s) /\ j <= i /\ s[i].at < t
    BY <1>1
  <2>3. s[j].at <= s[i].at
    BY <2>2 DEF InTimeOrder
  <2>4. QED
    BY <1>1, <1>2, <2>2, <2>3
<1>4. \A i \in 1..Len(s) : i \in old <=> s[i].at < t
  BY <1>1
<1> HIDE DEF old
<1>5. c \in 0..Len(s) /\ old = 1..c
  BY <1>1, <1>3, DownwardClosed
<1> DEFINE r == SubSeq(s, 1 + c, Len(s))
<1>6. r = Since(s, t)
  BY DEF Since, old
<1> HIDE DEF c
<1>7. /\ r \in Seq(S)
      /\ Len(r) = Len(s) - c
      /\ \A i \in 1..Len(r) : r[i] = s[i + c]
  BY <1>5, EntriesDropped
<1> HIDE DEF r
<1>8. Len(s) - Len(r) = c /\ Len(r) <= Len(s) /\ Len(r) \in Nat
  BY <1>1, <1>5, <1>7
<1>9. ASSUME NEW i \in 1..Len(r) PROVE r[i].at >= t
  <2>1. i + c \in 1..Len(s) /\ i + c \notin 1..c
    BY <1>1, <1>5, <1>7, <1>8
  <2>2. ~(s[i + c].at < t)
    BY <1>4, <1>5, <2>1
  <2>3. QED
    BY <1>2, <1>7, <2>1, <2>2
<1>10. \A i \in 1..c : s[i].at < t
  BY <1>1, <1>4, <1>5
<1>11. IsSince(r, s, t)
  BY <1>7, <1>8, <1>9, <1>10 DEF IsSince
<1>12. QED
  BY <1>6, <1>7, <1>11

LEMMA TheEndIsOne ==
  ASSUME NEW S, Dated(S), NEW s \in Seq(S), NEW t \in Int,
         NEW q \in Seq(S), NEW r \in Seq(S),
         IsSince(q, s, t), IsSince(r, s, t)
  PROVE  q = r
<1>1. Len(s) \in Nat /\ Len(q) \in Nat /\ Len(r) \in Nat
  BY LenProperties
<1>2. \A i \in 1..Len(s) : s[i].at \in Int
  BY DatesAreNumbers
<1>3. ASSUME NEW x \in Seq(S), NEW y \in Seq(S), Len(x) \in Nat, Len(y) \in Nat,
             IsSince(x, s, t), IsSince(y, s, t), Len(x) > Len(y)
      PROVE  FALSE
  <2>1. 1 \in 1..Len(x) /\ 1 + (Len(s) - Len(x)) \in 1..(Len(s) - Len(y))
    BY <1>1, <1>3 DEF IsSince
  <2>2. x[1] = s[1 + (Len(s) - Len(x))] /\ x[1].at >= t
    BY <1>3, <2>1 DEF IsSince
  <2>3. s[1 + (Len(s) - Len(x))].at < t
    BY <1>3, <2>1 DEF IsSince
  <2>4. 1 + (Len(s) - Len(x)) \in 1..Len(s)
    BY <1>1, <1>3, <2>1
  <2> DEFINE j == 1 + (Len(s) - Len(x))
  <2>5. x[1].at = s[j].at /\ s[j].at \in Int
    BY <1>2, <2>2, <2>4
  <2>6. s[j].at >= t /\ s[j].at < t
    BY <2>2, <2>3, <2>5, Zenon
  <2> HIDE DEF j
  <2>7. QED
    BY <2>5, <2>6
<1>4. Len(q) = Len(r)
  BY <1>1, <1>3
<1>5. \A i \in 1..Len(q) : q[i] = r[i]
  BY <1>4 DEF IsSince
<1>6. QED
  BY <1>4, <1>5, SeqEqual

LEMMA EndAppended ==
  ASSUME NEW S, NEW s \in Seq(S), NEW r \in Seq(S), NEW t \in Int,
         NEW e \in S, e.at >= t, IsSince(r, s, t)
  PROVE  IsSince(Append(r, e), Append(s, e), t)
<1>1. Len(s) \in Nat /\ Len(r) \in Nat /\ Len(r) <= Len(s)
  BY LenProperties DEF IsSince
<1> DEFINE q == Append(r, e)
           u == Append(s, e)
<1>2. /\ Len(q) = Len(r) + 1 /\ Len(u) = Len(s) + 1
      /\ \A i \in 1..Len(r) : q[i] = r[i]
      /\ \A i \in 1..Len(s) : u[i] = s[i]
      /\ q[Len(r) + 1] = e /\ u[Len(s) + 1] = e
  BY AppendProperties
<1> HIDE DEF q, u
<1>3. Len(u) - Len(q) = Len(s) - Len(r) /\ Len(q) <= Len(u)
  BY <1>1, <1>2
<1>4. ASSUME NEW i \in 1..Len(q) PROVE q[i] = u[i + (Len(s) - Len(r))] /\ q[i].at >= t
  <2>1. CASE i = Len(r) + 1
    BY <1>1, <1>2, <2>1
  <2>2. CASE i # Len(r) + 1
    <3>1. i \in 1..Len(r) /\ i + (Len(s) - Len(r)) \in 1..Len(s)
      BY <1>1, <1>2, <2>2
    <3>2. QED
      BY <1>2, <3>1 DEF IsSince
  <2>3. QED
    BY <2>1, <2>2
<1>5. ASSUME NEW i \in 1..(Len(s) - Len(r)) PROVE u[i].at < t
  <2>1. i \in 1..Len(s)
    BY <1>1
  <2>2. QED
    BY <1>2, <2>1 DEF IsSince
<1>6. IsSince(q, u, t)
  BY <1>3, <1>4, <1>5 DEF IsSince
<1>7. QED
  BY <1>6 DEF q, u

LEMMA EndWithoutTheFirst ==
  ASSUME NEW S, NEW s \in Seq(S), s # <<>>, NEW r \in Seq(S), NEW t \in Int,
         IsSince(r, s, t), Len(r) < Len(s)
  PROVE  IsSince(r, Tail(s), t)
<1>1. Len(s) \in Nat /\ Len(r) \in Nat
  BY LenProperties
<1> DEFINE u == Tail(s)
<1>2. Len(u) = Len(s) - 1 /\ \A i \in 1..Len(u) : u[i] = s[i + 1]
  BY HeadTailProperties
<1> HIDE DEF u
<1>3. ASSUME NEW i \in 1..Len(r) PROVE r[i] = u[i + (Len(u) - Len(r))]
  <2>1. i + (Len(u) - Len(r)) \in 1..Len(u)
        /\ i + (Len(u) - Len(r)) + 1 = i + (Len(s) - Len(r))
    BY <1>1, <1>2
  <2>2. QED
    BY <1>2, <2>1 DEF IsSince
<1>4. ASSUME NEW i \in 1..(Len(u) - Len(r)) PROVE u[i].at < t
  <2>1. i \in 1..Len(u) /\ i + 1 \in 1..(Len(s) - Len(r))
    BY <1>1, <1>2
  <2>2. QED
    BY <1>2, <2>1 DEF IsSince
<1>5. Len(r) <= Len(u)
  BY <1>1, <1>2
<1>6. \A i \in 1..Len(r) : r[i].at >= t
  BY DEF IsSince
<1>7. IsSince(r, u, t)
  BY <1>3, <1>4, <1>5, <1>6 DEF IsSince
<1>8. QED
  BY <1>7 DEF u

LEMMA EndOfTheEnd ==
  ASSUME NEW S, Dated(S), NEW s \in Seq(S), NEW r \in Seq(S), NEW q \in Seq(S),
         NEW t \in Int, NEW u \in Int, t <= u,
         IsSince(r, s, t), IsSince(q, r, u)
  PROVE  IsSince(q, s, u)
<1>1. /\ Len(s) \in Nat /\ Len(r) \in Nat /\ Len(q) \in Nat
      /\ Len(q) <= Len(r) /\ Len(r) <= Len(s)
  BY LenProperties DEF IsSince
<1>2. \A i \in 1..Len(s) : s[i].at \in Int
  BY DatesAreNumbers
<1>3. ASSUME NEW i \in 1..Len(q) PROVE q[i] = s[i + (Len(s) - Len(q))] /\ q[i].at >= u
  <2>1. i + (Len(r) - Len(q)) \in 1..Len(r)
        /\ i + (Len(r) - Len(q)) + (Len(s) - Len(r)) = i + (Len(s) - Len(q))
    BY <1>1
  <2>2. q[i] = r[i + (Len(r) - Len(q))] /\ q[i].at >= u
    BY DEF IsSince
  <2>3. QED
    BY <2>1, <2>2 DEF IsSince
<1>4. ASSUME NEW i \in 1..(Len(s) - Len(q)) PROVE s[i].at < u
  <2>1. CASE i \in 1..(Len(s) - Len(r))
    <3>1. s[i].at < t /\ i \in 1..Len(s)
      BY <1>1, <2>1 DEF IsSince
    <3>2. QED
      BY <1>2, <3>1
  <2>2. CASE i \notin 1..(Len(s) - Len(r))
    <3>1. i - (Len(s) - Len(r)) \in 1..(Len(r) - Len(q))
          /\ i - (Len(s) - Len(r)) \in 1..Len(r)
          /\ (i - (Len(s) - Len(r))) + (Len(s) - Len(r)) = i
      BY <1>1, <2>2
    <3>2. r[i - (Len(s) - Len(r))] = s[i] /\ r[i - (Len(s) - Len(r))].at < u
      BY <3>1 DEF IsSince
    <3>3. QED
      BY <3>2
  <2>3. QED
    BY <2>1, <2>2
<1>5. QED
  BY <1>1, <1>3, <1>4 DEF IsSince

LEMMA OrderOfTheEnd ==
  ASSUME NEW S, NEW s \in Seq(S), NEW r \in Seq(S), NEW t \in Int,
         InTimeOrder(s), IsSince(r, s, t)
  PROVE  InTimeOrder(r)
<1>1. Len(s) \in Nat /\ Len(r) \in Nat /\ Len(r) <= Len(s)
  BY LenProperties DEF IsSince
<1>2. SUFFICES ASSUME NEW i \in 1..Len(r), NEW j \in 1..Len(r), i <= j
               PROVE  r[i].at <= r[j].at
  BY DEF InTimeOrder
<1>3. /\ i + (Len(s) - Len(r)) \in 1..Len(s) /\ j + (Len(s) - Len(r)) \in 1..Len(s)
      /\ i + (Len(s) - Len(r)) <= j + (Len(s) - Len(r))
  BY <1>1, <1>2
<1>4. s[i + (Len(s) - Len(r))].at <= s[j + (Len(s) - Len(r))].at
  BY <1>3 DEF InTimeOrder
<1>5. QED
  BY <1>4 DEF IsSince

-----------------------------------------------------------------------------
(* ProbeDetector *)

ProbeEvents == [at : Nat, path : Paths, failed : BOOLEAN]

ProbesTypes ==
  /\ clock \in Nat
  /\ events \in [Keys -> Seq(ProbeEvents)]
  /\ history \in [Keys -> Seq(ProbeEvents)]
  /\ signals \in [Keys -> Nat \union {None}]
  /\ lastScan \in [Keys -> Nat \union {None}]

\* A list of events is no longer than it may be and in order of time.
Logged(list, now) ==
  /\ Len(list) <= MaxEvents
  /\ InTimeOrder(list)
  /\ \A i \in 1..Len(list) : list[i].at <= now

\* what the table has of a client that did not fall out of it, as far as it
\* is not too old, is what the client did
LogsAreComplete == \A k \in Keys \ crowdedOut : InWindow(events[k], clock) = history[k]

ProbesInv ==
  /\ ProbesTypes
  /\ \A k \in Keys : Logged(events[k], clock)
  /\ LogsAreComplete
  /\ MarksFollowScans

LEMMA EventsAreDated == Dated(ProbeEvents)
  BY DEF Dated, ProbeEvents

LEMMA WindowIsTheEnd ==
  ASSUME NEW list \in Seq(ProbeEvents), NEW now \in Nat, NEW n, Logged(list, n)
  PROVE  /\ InWindow(list, now) \in Seq(ProbeEvents)
         /\ IsSince(InWindow(list, now), list, now - ProbeWindow)
         /\ now - ProbeWindow \in Int
<1>1. now - ProbeWindow \in Int
  BY ProbesAssumption
<1>2. InTimeOrder(list)
  BY DEF Logged
<1>3. QED
  BY <1>1, <1>2, EventsAreDated, SinceIsTheEnd, Zenon DEF InWindow

LEMMA LoggedEnd ==
  ASSUME NEW list \in Seq(ProbeEvents), NEW r \in Seq(ProbeEvents), NEW t \in Int,
         NEW now \in Nat, Logged(list, now), IsSince(r, list, t)
  PROVE  Logged(r, now)
<1>1. InTimeOrder(list) /\ InTimeOrder(r)
  BY OrderOfTheEnd DEF Logged
<1>2. Len(list) \in Nat /\ Len(r) \in Nat /\ Len(r) <= Len(list) /\ Len(list) <= MaxEvents
  BY LenProperties DEF Logged, IsSince
<1>3. MaxEvents \in Nat
  BY ProbesAssumption
<1>4. Len(r) <= MaxEvents
  BY <1>2, <1>3
<1>5. \A i \in 1..Len(r) : i + (Len(list) - Len(r)) \in 1..Len(list)
  BY <1>2
<1>6. \A i \in 1..Len(r) : r[i].at <= now
  BY <1>5 DEF Logged, IsSince
<1>7. QED
  BY <1>1, <1>4, <1>6 DEF Logged

LEMMA LoggedLater ==
  ASSUME NEW list \in Seq(ProbeEvents), NEW now \in Nat, Logged(list, now)
  PROVE  Logged(list, now + 1)
<1>1. \A i \in 1..Len(list) : list[i].at \in Int
  BY EventsAreDated, DatesAreNumbers
<1>2. \A i \in 1..Len(list) : list[i].at <= now + 1
  BY <1>1 DEF Logged
<1>3. QED
  BY <1>2 DEF Logged

LEMMA LoggedWith ==
  ASSUME NEW list \in Seq(ProbeEvents), NEW now \in Nat, Logged(list, now),
         Len(list) < MaxEvents, NEW e \in ProbeEvents, e.at = now
  PROVE  Logged(Append(list, e), now)
<1>1. MaxEvents \in Nat /\ Len(list) \in Nat
  BY ProbesAssumption, LenProperties
<1> DEFINE u == Append(list, e)
<1>2. /\ Len(u) = Len(list) + 1
      /\ \A i \in 1..Len(list) : u[i] = list[i]
      /\ u[Len(list) + 1] = e
  BY AppendProperties
<1> HIDE DEF u
<1>3. \A i \in 1..Len(list) : list[i].at <= now
  BY DEF Logged
<1>4. \A i \in 1..Len(u) : u[i].at <= now
  <2>1. \A i \in 1..Len(u) : i \in 1..Len(list) \/ i = Len(list) + 1
    BY <1>1, <1>2
  <2>2. now <= now
    OBVIOUS
  <2>3. QED
    BY <1>2, <1>3, <2>1, <2>2
<1>5. InTimeOrder(u)
  <2>1. SUFFICES ASSUME NEW i \in 1..Len(u), NEW j \in 1..Len(u), i <= j
                 PROVE  u[i].at <= u[j].at
    BY DEF InTimeOrder
  <2>2. CASE j = Len(list) + 1
    BY <1>2, <1>4, <2>2
  <2>3. CASE j # Len(list) + 1
    <3>1. i \in 1..Len(list) /\ j \in 1..Len(list)
      BY <1>1, <1>2, <2>1, <2>3
    <3>2. QED
      BY <1>2, <2>1, <3>1 DEF InTimeOrder, Logged
  <2>4. QED
    BY <2>2, <2>3
<1>6. QED
  BY <1>1, <1>2, <1>4, <1>5 DEF Logged, u

LEMMA LoggedWithoutTheFirst ==
  ASSUME NEW list \in Seq(ProbeEvents), NEW now \in Nat, Logged(list, now), list # <<>>
  PROVE  Tail(list) \in Seq(ProbeEvents) /\ Len(Tail(list)) = Len(list) - 1 /\ Logged(Tail(list), now)
<1>1. Len(list) \in Nat /\ MaxEvents \in Nat
  BY ProbesAssumption, LenProperties
<1> DEFINE u == Tail(list)
<1>2. u \in Seq(ProbeEvents) /\ Len(u) = Len(list) - 1 /\ \A i \in 1..Len(u) : u[i] = list[i + 1]
  BY HeadTailProperties
<1> HIDE DEF u
<1>3. \A i \in 1..Len(u) : i + 1 \in 1..Len(list)
  BY <1>1, <1>2
<1>4. \A i \in 1..Len(u) : u[i].at <= now
  BY <1>2, <1>3 DEF Logged
<1>5. InTimeOrder(u)
  <2>1. SUFFICES ASSUME NEW i \in 1..Len(u), NEW j \in 1..Len(u), i <= j
                 PROVE  u[i].at <= u[j].at
    BY DEF InTimeOrder
  <2>2. i + 1 <= j + 1
    BY <2>1
  <2>3. QED
    BY <1>2, <1>3, <2>2 DEF InTimeOrder, Logged
<1>6. Len(u) <= MaxEvents
  BY <1>1, <1>2 DEF Logged
<1>7. QED
  BY <1>2, <1>4, <1>5, <1>6 DEF Logged, u

LEMMA AppendedIsLogged ==
  ASSUME NEW list \in Seq(ProbeEvents), NEW now \in Nat, Logged(list, now),
         NEW e \in ProbeEvents, e.at = now
  PROVE  Appended(list, e) \in Seq(ProbeEvents) /\ Logged(Appended(list, e), now)
<1>1. MaxEvents \in Nat \ {0} /\ Len(list) \in Nat /\ Len(list) <= MaxEvents
  BY ProbesAssumption, LenProperties DEF Logged
<1>2. PICK base \in Seq(ProbeEvents) :
        Appended(list, e) = Append(base, e) /\ Logged(base, now) /\ Len(base) < MaxEvents
  <2>1. CASE Len(list) < MaxEvents
    BY <2>1, Zenon DEF Appended
  <2>2. CASE ~(Len(list) < MaxEvents)
    <3>1. list # <<>>
      BY <1>1, <2>2, EmptySeq
    <3>2. /\ Tail(list) \in Seq(ProbeEvents) /\ Len(Tail(list)) = Len(list) - 1
          /\ Logged(Tail(list), now)
      BY <3>1, LoggedWithoutTheFirst
    <3>3. Len(Tail(list)) < MaxEvents
      BY <1>1, <3>2
    <3>4. QED
      BY <2>2, <3>2, <3>3, Zenon DEF Appended
  <2>3. QED
    BY <2>1, <2>2
<1>3. Append(base, e) \in Seq(ProbeEvents) /\ Logged(Append(base, e), now)
  BY <1>2, LoggedWith, AppendProperties
<1>4. QED
  BY <1>2, <1>3

\* A full list loses its oldest entry, and that is one which is too old.
LEMMA WindowOfAppended ==
  ASSUME NEW list \in Seq(ProbeEvents), NEW now \in Nat, Logged(list, now),
         NEW e \in ProbeEvents, e.at = now,
         Len(InWindow(list, now)) < MaxEvents
  PROVE  InWindow(Appended(list, e), now) = Append(InWindow(list, now), e)
<1> DEFINE t == now - ProbeWindow
           r == InWindow(list, now)
<1>1. r \in Seq(ProbeEvents) /\ IsSince(r, list, t) /\ t \in Int
  BY WindowIsTheEnd
<1>2. e.at >= t
  BY ProbesAssumption
<1>3. MaxEvents \in Nat \ {0} /\ Len(list) \in Nat /\ Len(list) <= MaxEvents
  BY ProbesAssumption, LenProperties DEF Logged
<1>4. PICK base \in Seq(ProbeEvents) : Appended(list, e) = Append(base, e) /\ IsSince(r, base, t)
  <2>1. CASE Len(list) < MaxEvents
    BY <1>1, <2>1, Zenon DEF Appended
  <2>2. CASE ~(Len(list) < MaxEvents)
    <3>1. list # <<>> /\ Len(r) < Len(list)
      BY <1>3, <2>2, EmptySeq
    <3>2. Tail(list) \in Seq(ProbeEvents)
      BY <3>1, LoggedWithoutTheFirst
    <3> HIDE DEF r, t
    <3>3. IsSince(r, Tail(list), t)
      BY <1>1, <3>1, EndWithoutTheFirst
    <3>4. QED
      BY <2>2, <3>2, <3>3, Zenon DEF Appended
  <2>3. QED
    BY <2>1, <2>2
<1> DEFINE u == Append(base, e)
<1>5. u \in Seq(ProbeEvents) /\ Append(r, e) \in Seq(ProbeEvents)
  BY <1>1, AppendProperties
<1>6. Logged(u, now)
  BY <1>4, AppendedIsLogged
<1>7. IsSince(Append(r, e), u, t)
  BY <1>1, <1>2, <1>4, EndAppended
<1> HIDE DEF u
<1>8. InWindow(u, now) \in Seq(ProbeEvents) /\ IsSince(InWindow(u, now), u, t)
  BY <1>5, <1>6, WindowIsTheEnd
<1> HIDE DEF r, t
<1>9. InWindow(u, now) = Append(r, e)
  BY <1>1, <1>5, <1>7, <1>8, EventsAreDated, TheEndIsOne
<1>10. QED
  BY <1>4, <1>9 DEF u, r

\* What is too old now will be too old later.
LEMMA WindowOfTheWindow ==
  ASSUME NEW list \in Seq(ProbeEvents), NEW now \in Nat, Logged(list, now),
         NEW later \in Nat, now <= later
  PROVE  /\ Logged(InWindow(list, now), now)
         /\ InWindow(InWindow(list, now), later) = InWindow(list, later)
<1> DEFINE r == InWindow(list, now)
           q == InWindow(r, later)
           p == InWindow(list, later)
           t == now - ProbeWindow
           u == later - ProbeWindow
<1>1. r \in Seq(ProbeEvents) /\ IsSince(r, list, t) /\ t \in Int
  BY WindowIsTheEnd
<1>2. Logged(r, now)
  BY <1>1, LoggedEnd
<1>3. p \in Seq(ProbeEvents) /\ IsSince(p, list, u) /\ u \in Int
  BY WindowIsTheEnd
<1> HIDE DEF r
<1>4. q \in Seq(ProbeEvents) /\ IsSince(q, r, u)
  BY <1>1, <1>2, WindowIsTheEnd
<1>5. t <= u
  BY ProbesAssumption
<1> HIDE DEF t, u, p, q
<1>6. IsSince(q, list, u)
  BY <1>1, <1>3, <1>4, <1>5, EventsAreDated, EndOfTheEnd
<1>7. q = p
  BY <1>3, <1>4, <1>6, EventsAreDated, TheEndIsOne
<1>8. QED
  BY <1>2, <1>7 DEF r, q, p

\* A client is marked as it should be.
Marked(k) ==
  IF lastScan[k] # None /\ clock - lastScan[k] <= ProbeWindow
  THEN signals[k] = lastScan[k]
  ELSE signals[k] = None \/ SignalOver(k)

LEMMA ProbesStart == DetectorsInit => ProbesInv
<1> SUFFICES ASSUME DetectorsInit PROVE ProbesInv
  OBVIOUS
<1> USE DEF DetectorsInit, ProbesInit
<1> DEFINE none == [k \in Keys |-> <<>>]
<1>1. <<>> \in Seq(ProbeEvents) /\ Len(<<>>) = 0
  BY EmptySeq
<1>2. ProbesTypes
  BY <1>1 DEF ProbesTypes
<1>3. Logged(<<>>, clock)
  BY <1>1, ProbesAssumption DEF Logged, InTimeOrder
<1>4. InWindow(<<>>, clock) = <<>>
  <2>1. IsSince(InWindow(<<>>, clock), <<>>, clock - ProbeWindow)
        /\ InWindow(<<>>, clock) \in Seq(ProbeEvents)
    BY <1>1, <1>3, WindowIsTheEnd
  <2>2. Len(InWindow(<<>>, clock)) \in Nat /\ Len(InWindow(<<>>, clock)) <= 0
    BY <1>1, <2>1, LenProperties DEF IsSince
  <2>3. QED
    BY <2>1, <2>2, EmptySeq
<1>5. LogsAreComplete
  BY <1>4 DEF LogsAreComplete
<1>6. MarksFollowScans
  BY DEF MarksFollowScans
<1>7. \A k \in Keys : Logged(events[k], clock)
  BY <1>3
<1>8. QED
  BY <1>2, <1>5, <1>6, <1>7 DEF ProbesInv

LEMMA RecordKeepsLogs ==
  ASSUME ProbesInv, clock' = clock, NEW k \in Keys, NEW path \in Paths, NEW failed \in BOOLEAN,
         RecordEvent(k, path, failed)
  PROVE  /\ events' \in [Keys -> Seq(ProbeEvents)]
         /\ history' \in [Keys -> Seq(ProbeEvents)]
         /\ \A l \in Keys : Logged(events'[l], clock)
         /\ \A l \in Keys \ crowdedOut' : InWindow(events'[l], clock) = history'[l]
<1> DEFINE e == [at |-> clock, path |-> path, failed |-> failed]
           noted == [events EXCEPT ![k] = Appended(@, e)]
<1>1. /\ clock \in Nat
      /\ events \in [Keys -> Seq(ProbeEvents)] /\ history \in [Keys -> Seq(ProbeEvents)]
      /\ \A l \in Keys : Logged(events[l], clock)
      /\ \A l \in Keys \ crowdedOut : InWindow(events[l], clock) = history[l]
  BY DEF ProbesInv, ProbesTypes, LogsAreComplete
<1>2. e \in ProbeEvents /\ e.at = clock
  BY <1>1 DEF ProbeEvents
<1>3. PICK out :
        /\ events' = IF CleanupDue
                     THEN [l \in Keys |-> IF l \in out THEN <<>> ELSE Tidy(noted)[l]]
                     ELSE noted
        /\ crowdedOut' = crowdedOut \union out
  BY Zenon DEF RecordEvent
<1>4. Len(history[k]) < MaxEvents /\ history' = [history EXCEPT ![k] = Append(@, e)]
  BY DEF RecordEvent
<1> HIDE DEF e
<1>5. Append(history[k], e) \in Seq(ProbeEvents)
  BY <1>1, <1>2, AppendProperties
<1>6. /\ history' \in [Keys -> Seq(ProbeEvents)]
      /\ \A l \in Keys : history'[l] = IF l = k THEN Append(history[k], e) ELSE history[l]
  BY <1>1, <1>4, <1>5
<1>7. Appended(events[k], e) \in Seq(ProbeEvents) /\ Logged(Appended(events[k], e), clock)
  BY <1>1, <1>2, AppendedIsLogged
<1>8. \A l \in Keys : noted[l] = IF l = k THEN Appended(events[k], e) ELSE events[l]
  BY <1>1
<1>9. noted \in [Keys -> Seq(ProbeEvents)]
  BY <1>1, <1>7
<1> HIDE DEF noted
<1>10. \A l \in Keys : Logged(noted[l], clock)
  BY <1>1, <1>7, <1>8
<1>11. ASSUME NEW l \in Keys \ crowdedOut PROVE InWindow(noted[l], clock) = history'[l]
  <2>1. CASE l = k
    <3>1. InWindow(events[k], clock) = history[k]
      BY <1>1, <2>1
    <3>2. InWindow(Appended(events[k], e), clock) = Append(InWindow(events[k], clock), e)
      BY <1>1, <1>2, <1>4, <3>1, WindowOfAppended
    <3>3. QED
      BY <1>6, <1>8, <2>1, <3>1, <3>2
  <2>2. CASE l # k
    BY <1>1, <1>6, <1>8, <2>2
  <2>3. QED
    BY <2>1, <2>2
<1>12. CASE ~CleanupDue
  <2>1. events' = noted /\ crowdedOut \subseteq crowdedOut'
    BY <1>3, <1>12
  <2>2. QED
    BY <1>6, <1>9, <1>10, <1>11, <2>1
<1>13. CASE CleanupDue
  <2>1. \A l \in Keys : Tidy(noted)[l] = InWindow(noted[l], clock)
    BY DEF Tidy
  <2>2. events' = [l \in Keys |-> IF l \in out THEN <<>> ELSE InWindow(noted[l], clock)]
    BY <1>3, <1>13, <2>1
  <2>3. \A l \in Keys : /\ InWindow(noted[l], clock) \in Seq(ProbeEvents)
                        /\ Logged(InWindow(noted[l], clock), clock)
                        /\ InWindow(InWindow(noted[l], clock), clock) = InWindow(noted[l], clock)
    BY <1>1, <1>9, <1>10, WindowIsTheEnd, WindowOfTheWindow
  <2>4. <<>> \in Seq(ProbeEvents) /\ Logged(<<>>, clock)
    <3>1. <<>> \in Seq(ProbeEvents) /\ Len(<<>>) = 0
      BY EmptySeq
    <3>2. QED
      BY <3>1, ProbesAssumption DEF Logged, InTimeOrder
  <2>5. events' \in [Keys -> Seq(ProbeEvents)] /\ \A l \in Keys : Logged(events'[l], clock)
    BY <2>2, <2>3, <2>4
  <2>6. \A l \in Keys \ crowdedOut' : l \notin crowdedOut /\ l \notin out
    BY <1>3
  <2>7. \A l \in Keys \ crowdedOut' : InWindow(events'[l], clock) = history'[l]
    BY <1>11, <2>2, <2>3, <2>6
  <2>8. QED
    BY <1>6, <2>5, <2>7
<1>14. QED
  BY <1>12, <1>13

LEMMA RecordKeepsMarks ==
  ASSUME ProbesInv, clock' = clock, NEW k \in Keys, NEW path \in Paths, NEW failed \in BOOLEAN,
         RecordEvent(k, path, failed)
  PROVE  /\ signals' \in [Keys -> Nat \union {None}]
         /\ lastScan' \in [Keys -> Nat \union {None}]
         /\ \A l \in Keys \ crowdedOut' : Marked(l)'
<1> DEFINE s == [l \in Keys |-> IF CleanupDue /\ SignalOver(l) THEN None ELSE signals[l]]
<1>1. /\ clock \in Nat /\ signals \in [Keys -> Nat \union {None}]
      /\ lastScan \in [Keys -> Nat \union {None}]
      /\ \A l \in Keys \ crowdedOut : Marked(l)
  BY DEF ProbesInv, ProbesTypes, MarksFollowScans, Marked
<1>2. /\ crowdedOut \subseteq crowdedOut'
      /\ signals' = IF ProbePattern(InWindow(events'[k], clock)) THEN Signalled(s, k) ELSE s
      /\ lastScan' = IF ProbePattern(history'[k]) THEN [lastScan EXCEPT ![k] = clock] ELSE lastScan
  BY DEF RecordEvent
<1>3. k \notin crowdedOut' => InWindow(events'[k], clock) = history'[k]
  BY RecordKeepsLogs
<1>4. s \in [Keys -> Nat \union {None}] /\ \A l \in Keys : s[l] = signals[l] \/ (s[l] = None /\ SignalOver(l))
  BY <1>1
<1> HIDE DEF s
<1>5. signals' \in [Keys -> Nat \union {None}] /\ lastScan' \in [Keys -> Nat \union {None}]
  BY <1>1, <1>2, <1>4 DEF Signalled
<1>6. ASSUME NEW l \in Keys \ crowdedOut' PROVE Marked(l)'
  <2>1. Marked(l)
    BY <1>1, <1>2
  <2>2. CASE l = k /\ ProbePattern(history'[k])
    <3>1. signals'[l] = clock /\ lastScan'[l] = clock
      BY <1>1, <1>2, <1>3, <1>4, <2>2 DEF Signalled
    <3>2. clock - clock <= ProbeWindow /\ clock # None
      BY <1>1, ProbesAssumption
    <3>3. QED
      BY <3>1, <3>2 DEF Marked
  <2>3. CASE ~(l = k /\ ProbePattern(history'[k]))
    <3>1. lastScan'[l] = lastScan[l]
      BY <1>1, <1>2, <2>3
    <3>2. signals'[l] = s[l]
      BY <1>2, <1>3, <1>4, <2>3 DEF Signalled
    <3>3. CASE s[l] = signals[l]
      BY <2>1, <3>1, <3>2, <3>3 DEF Marked, SignalOver
    <3>4. CASE s[l] = None /\ SignalOver(l)
      <4>1. clock - signals[l] > ProbeWindow /\ signals[l] # None /\ signals[l] \in Nat
        BY <1>1, <3>4 DEF SignalOver
      <4>2. ~(lastScan[l] # None /\ clock - lastScan[l] <= ProbeWindow)
        BY <1>1, <2>1, <4>1, ProbesAssumption DEF Marked
      <4>3. QED
        BY <3>1, <3>2, <3>4, <4>2 DEF Marked
    <3>5. QED
      BY <1>4, <3>3, <3>4
  <2>4. QED
    BY <2>2, <2>3
<1>7. QED
  BY <1>5, <1>6

LEMMA MarkedOverTime ==
  ASSUME ProbesInv, clock' = clock + 1, signals' = signals, lastScan' = lastScan,
         NEW k \in Keys, Marked(k)
  PROVE  Marked(k)'
<1>1. /\ clock \in Nat /\ signals[k] \in Nat \union {None} /\ lastScan[k] \in Nat \union {None}
      /\ ProbeWindow \in Nat /\ None \notin Int
  BY ProbesAssumption DEF ProbesInv, ProbesTypes
<1>2. CASE lastScan[k] # None /\ clock - lastScan[k] <= ProbeWindow
  <2>1. signals[k] = lastScan[k]
    BY <1>2 DEF Marked
  <2>2. QED
    BY <1>1, <1>2, <2>1 DEF Marked, SignalOver
<1>3. CASE ~(lastScan[k] # None /\ clock - lastScan[k] <= ProbeWindow)
  <2>1. signals[k] = None \/ (signals[k] # None /\ clock - signals[k] > ProbeWindow)
    BY <1>3 DEF Marked, SignalOver
  <2>2. clock' = clock + 1 /\ signals'[k] = signals[k] /\ lastScan'[k] = lastScan[k]
    OBVIOUS
  <2>3. signals'[k] = None \/ (signals'[k] # None /\ clock' - signals'[k] > ProbeWindow)
    BY <1>1, <2>1, <2>2
  <2>4. ~(lastScan'[k] # None /\ clock' - lastScan'[k] <= ProbeWindow)
    BY <1>1, <1>3, <2>2
  <2>5. QED
    BY <2>3, <2>4, Zenon DEF Marked, SignalOver
<1>4. QED
  BY <1>2, <1>3

LEMMA ProbesSteps == ProbesInv /\ [DetectorsNext]_detectorsVars => ProbesInv'
<1> SUFFICES ASSUME ProbesInv, [DetectorsNext]_detectorsVars PROVE ProbesInv'
  OBVIOUS
<1> USE DEF ProbesInv, ProbesTypes
<1>0. <<>> \in Seq(ProbeEvents) /\ Len(<<>>) = 0
  BY EmptySeq
<1>1. \A now \in Nat : Logged(<<>>, now) /\ InWindow(<<>>, now) = <<>>
  <2> SUFFICES ASSUME NEW now \in Nat PROVE Logged(<<>>, now) /\ InWindow(<<>>, now) = <<>>
    OBVIOUS
  <2>1. Logged(<<>>, now)
    BY <1>0, ProbesAssumption DEF Logged, InTimeOrder
  <2>2. IsSince(InWindow(<<>>, now), <<>>, now - ProbeWindow)
        /\ InWindow(<<>>, now) \in Seq(ProbeEvents)
    BY <1>0, <2>1, WindowIsTheEnd
  <2>3. Len(InWindow(<<>>, now)) \in Nat /\ Len(InWindow(<<>>, now)) <= 0
    BY <1>0, <2>2, LenProperties DEF IsSince
  <2>4. QED
    BY <2>1, <2>2, <2>3, EmptySeq
<1>2. /\ clock \in Nat
      /\ \A l \in Keys : Logged(events[l], clock)
      /\ \A l \in Keys \ crowdedOut : InWindow(events[l], clock) = history[l]
      /\ \A l \in Keys \ crowdedOut : Marked(l)
  BY DEF LogsAreComplete, MarksFollowScans, Marked
<1>3. CASE DetectorsTick
  <2>1. /\ clock' = clock + 1 /\ clock + 1 \in Nat
        /\ events' = events /\ signals' = signals /\ lastScan' = lastScan /\ crowdedOut' = crowdedOut
        /\ history' = [k \in Keys |-> InWindow(history[k], clock + 1)]
    BY <1>2, <1>3 DEF DetectorsTick, ProbesAge
  <2>2. \A l \in Keys : Logged(events[l], clock + 1)
    BY <1>2, LoggedLater
  <2>3. \A l \in Keys \ crowdedOut : InWindow(events[l], clock + 1) = history'[l]
    BY <1>2, <2>1, WindowOfTheWindow
  <2>4. \A l \in Keys : InWindow(history[l], clock + 1) \in Seq(ProbeEvents)
    BY <2>1, SinceIsAList DEF InWindow
  <2>5. history' \in [Keys -> Seq(ProbeEvents)]
    BY <2>1, <2>4
  <2>6. \A l \in Keys \ crowdedOut : Marked(l)'
    BY <1>2, <2>1, MarkedOverTime
  <2>7. LogsAreComplete' /\ MarksFollowScans'
    BY <2>1, <2>3, <2>6 DEF LogsAreComplete, MarksFollowScans, Marked
  <2>8. QED
    BY <2>1, <2>2, <2>5, <2>7
<1>4. ASSUME NEW k \in Keys, NEW path \in Paths, NEW failed \in BOOLEAN,
             RecordEvent(k, path, failed), clock' = clock
      PROVE  ProbesInv'
  <2>1. /\ events' \in [Keys -> Seq(ProbeEvents)]
        /\ history' \in [Keys -> Seq(ProbeEvents)]
        /\ \A l \in Keys : Logged(events'[l], clock)
        /\ \A l \in Keys \ crowdedOut' : InWindow(events'[l], clock) = history'[l]
    BY <1>4, RecordKeepsLogs
  <2>2. /\ signals' \in [Keys -> Nat \union {None}]
        /\ lastScan' \in [Keys -> Nat \union {None}]
        /\ \A l \in Keys \ crowdedOut' : Marked(l)'
    BY <1>4, RecordKeepsMarks
  <2>3. LogsAreComplete' /\ MarksFollowScans'
    BY <1>4, <2>1, <2>2 DEF LogsAreComplete, MarksFollowScans, Marked
  <2>4. QED
    BY <1>4, <2>1, <2>2, <2>3
<1>5. ASSUME NEW k \in Keys, LookForProbe(k), clock' = clock PROVE ProbesInv'
  <2>1. /\ events' = events /\ lastScan' = lastScan /\ history' = history /\ crowdedOut' = crowdedOut
        /\ signals' = [signals EXCEPT ![k] = None]
        /\ signals[k] # None /\ clock - signals[k] > ProbeWindow
    BY <1>5 DEF LookForProbe, SignalOver
  <2>2. ASSUME NEW l \in Keys \ crowdedOut PROVE Marked(l)'
    <3>1. CASE l = k
      <4>1. signals'[l] = None
        BY <2>1, <3>1
      <4>2. Marked(l) /\ signals[l] \in Nat /\ ProbeWindow \in Nat
        BY <1>2, <2>1, <3>1, ProbesAssumption
      <4>3. ~(lastScan[l] # None /\ clock - lastScan[l] <= ProbeWindow)
        BY <1>2, <2>1, <3>1, <4>2 DEF Marked
      <4>4. QED
        BY <1>5, <2>1, <4>1, <4>3 DEF Marked
    <3>2. CASE l # k
      BY <1>2, <1>5, <2>1, <3>2 DEF Marked, SignalOver
    <3>3. QED
      BY <3>1, <3>2
  <2>3. MarksFollowScans'
    BY <2>1, <2>2 DEF MarksFollowScans, Marked
  <2>4. LogsAreComplete'
    BY <1>2, <1>5, <2>1 DEF LogsAreComplete
  <2>5. QED
    BY <1>5, <2>1, <2>3, <2>4
<1>6. ASSUME NEW gone \in SUBSET Keys, clock' = clock,
             events' = [k \in Keys |-> IF k \in gone THEN <<>> ELSE events[k]],
             history' = [k \in Keys |-> IF k \in gone THEN <<>> ELSE history[k]],
             signals' = [k \in Keys |-> IF k \in gone THEN None ELSE signals[k]],
             lastScan' = [k \in Keys |-> IF k \in gone THEN None ELSE lastScan[k]],
             \A k \in Keys \ gone : k \in crowdedOut' <=> k \in crowdedOut
      PROVE  ProbesInv'
  <2>1. \A l \in Keys : Logged(events'[l], clock)
    BY <1>1, <1>2, <1>6
  <2>2. \A l \in Keys \ crowdedOut' : InWindow(events'[l], clock) = history'[l]
    BY <1>1, <1>2, <1>6
  <2>3. \A l \in Keys \ crowdedOut' : Marked(l)'
    BY <1>2, <1>6 DEF Marked, SignalOver
  <2>4. LogsAreComplete' /\ MarksFollowScans'
    BY <1>6, <2>2, <2>3 DEF LogsAreComplete, MarksFollowScans, Marked
  <2>5. QED
    BY <1>0, <1>6, <2>1, <2>4
<1>7. ASSUME NEW k \in Keys, ClearProber(k), clock' = clock PROVE ProbesInv'
  <2> DEFINE gone == {k}
  <2>1. /\ events' = [l \in Keys |-> IF l \in gone THEN <<>> ELSE events[l]]
        /\ history' = [l \in Keys |-> IF l \in gone THEN <<>> ELSE history[l]]
        /\ signals' = [l \in Keys |-> IF l \in gone THEN None ELSE signals[l]]
        /\ lastScan' = [l \in Keys |-> IF l \in gone THEN None ELSE lastScan[l]]
        /\ \A l \in Keys \ gone : l \in crowdedOut' <=> l \in crowdedOut
    BY <1>7 DEF ClearProber
  <2>2. gone \in SUBSET Keys
    OBVIOUS
  <2> HIDE DEF gone
  <2>3. QED
    BY <1>6, <1>7, <2>1, <2>2
<1>8. CASE ClearProbers /\ clock' = clock
  <2>1. /\ events' = [l \in Keys |-> IF l \in Keys THEN <<>> ELSE events[l]]
        /\ history' = [l \in Keys |-> IF l \in Keys THEN <<>> ELSE history[l]]
        /\ signals' = [l \in Keys |-> IF l \in Keys THEN None ELSE signals[l]]
        /\ lastScan' = [l \in Keys |-> IF l \in Keys THEN None ELSE lastScan[l]]
    BY <1>8 DEF ClearProbers
  <2>2. QED
    BY <1>6, <1>8, <2>1
<1>9. CASE UNCHANGED <<clock, probeVars>>
  BY <1>9 DEF probeVars, LogsAreComplete, MarksFollowScans, SignalOver
<1>10. CASE ProbesNext /\ clock' = clock
  BY <1>4, <1>5, <1>7, <1>8, <1>10, Zenon DEF ProbesNext
<1>11. DetectorsTick \/ (ProbesNext /\ clock' = clock) \/ UNCHANGED <<clock, probeVars>>
  BY DEF DetectorsNext, detectorsVars
<1>12. QED
  BY <1>3, <1>9, <1>10, <1>11, Zenon

\* Tidying up the tables of the probe detector is not seen from outside: a
\* client that no full table has dropped is marked as probing just when what it
\* did in a window made a pattern no longer than a window ago (record,
\* _maybe_cleanup, is_probing).
THEOREM MarksAlwaysFollowScans == DetectorsSpec => []MarksFollowScans
<1>1. ProbesInv => MarksFollowScans
  BY DEF ProbesInv
<1>2. QED
  BY <1>1, ProbesStart, ProbesSteps, PTL DEF DetectorsSpec

-----------------------------------------------------------------------------
(* Sums of differences and of their squares *)

LEMMA LinearStep ==
  ASSUME NEW a \in Int, NEW b \in Int, NEW c \in Int, NEW n \in Int,
         NEW x \in Int, NEW y \in Int, NEW s \in Int, NEW t \in Int
  PROVE  (a * x + b * y + c) + (a * s + b * t + c * (n - 1))
           = a * (x + s) + b * (y + t) + c * n
OBVIOUS

\* f is made from g and h on S
IsLinear(S, f, a, g, b, h, c) ==
  /\ a \in Int /\ b \in Int /\ c \in Int
  /\ \A x \in S : /\ g[x] \in Int /\ h[x] \in Int
                  /\ f[x] = a * g[x] + b * h[x] + c

LEMMA SumOfLinear ==
  ASSUME NEW S, IsFiniteSet(S), NEW f, NEW g, NEW h, NEW a, NEW b, NEW c,
         IsLinear(S, f, a, g, b, h, c)
  PROVE  SumOver(f, S) = a * SumOver(g, S) + b * SumOver(h, S) + c * Cardinality(S)
<1> DEFINE Ok(s) == SumOver(f, s) = a * SumOver(g, s) + b * SumOver(h, s) + c * Cardinality(s)
           Bad == {s \in SUBSET S : ~Ok(s)}
<1>0. /\ a \in Int /\ b \in Int /\ c \in Int
      /\ \A x \in S : g[x] \in Int /\ h[x] \in Int /\ f[x] = a * g[x] + b * h[x] + c
      /\ \A x \in S : f[x] \in Int
  BY DEF IsLinear
<1>1. \A s \in SUBSET S : IsFiniteSet(s)
  BY FS_Subset
<1> SUFFICES ASSUME Bad # {} PROVE FALSE
  OBVIOUS
<1>2. PICK s \in Bad : \A t \in Bad : Cardinality(s) <= Cardinality(t)
  BY <1>1, SmallestOf
<1>3. s \in SUBSET S /\ IsFiniteSet(s) /\ ~Ok(s)
  BY <1>1, <1>2
<1>4. /\ \A x \in s : f[x] \in Int /\ g[x] \in Int /\ h[x] \in Int
      /\ \A x \in s : f[x] = a * g[x] + b * h[x] + c
  BY <1>0, <1>3
<1>5. s # {}
  <2> SUFFICES ASSUME s = {} PROVE FALSE
    OBVIOUS
  <2>1. SumOver(f, s) = 0 /\ SumOver(g, s) = 0 /\ SumOver(h, s) = 0 /\ Cardinality(s) = 0
    BY <1>3, SumFirst, FS_EmptySet
  <2>2. a * 0 + b * 0 + c * 0 = 0
    BY <1>0
  <2>3. QED
    BY <1>3, <2>1, <2>2
<1>6. PICK x \in s : TRUE
  BY <1>5
<1> DEFINE r == s \ {x}
<1>7. /\ r \in SUBSET S /\ IsFiniteSet(r) /\ Cardinality(r) = Cardinality(s) - 1
      /\ Cardinality(s) \in Nat
  BY <1>3, <1>6, FS_RemoveElement, FS_CardinalityType
<1>8. Ok(r)
  <2>1. ~(Cardinality(s) <= Cardinality(r))
    BY <1>7
  <2> HIDE DEF Ok, r
  <2>2. r \notin Bad
    BY <1>2, <2>1
  <2>3. QED
    BY <1>7, <2>2
<1>9. /\ SumOver(f, s) = f[x] + SumOver(f, r)
      /\ SumOver(g, s) = g[x] + SumOver(g, r)
      /\ SumOver(h, s) = h[x] + SumOver(h, r)
  BY <1>3, <1>4, <1>6, SumAny
<1>10. \A y \in r : f[y] \in Int /\ g[y] \in Int /\ h[y] \in Int
  BY <1>4
<1>11. SumOver(g, r) \in Int /\ SumOver(h, r) \in Int
  BY <1>7, <1>10, SumFirst
<1>12. SumOver(f, r) = a * SumOver(g, r) + b * SumOver(h, r) + c * (Cardinality(s) - 1)
  BY <1>7, <1>8
<1>13. (a * g[x] + b * h[x] + c) + (a * SumOver(g, r) + b * SumOver(h, r) + c * (Cardinality(s) - 1))
         = a * (g[x] + SumOver(g, r)) + b * (h[x] + SumOver(h, r)) + c * Cardinality(s)
  BY <1>0, <1>4, <1>6, <1>7, <1>11, LinearStep
<1> HIDE DEF r
<1>14. f[x] = a * g[x] + b * h[x] + c
  BY <1>4, <1>6
<1>15. Ok(s)
  BY <1>9, <1>12, <1>13, <1>14, Zenon
<1>16. QED
  BY <1>3, <1>15

\* all pairs of an element of S and one of T
Grid(S, T) == S \X T

\* those that begin with x
Line(x, T) == {x} \X T

LEMMA SumOfRow ==
  ASSUME NEW x, NEW T, IsFiniteSet(T), NEW g, NEW h,
         \A y \in T : g[<<x, y>>] \in Int /\ h[y] = g[<<x, y>>]
  PROVE  SumOver(g, Line(x, T)) = SumOver(h, T)
<1> DEFINE Cut(t) == Line(x, t)
           Ok(t) == SumOver(g, Cut(t)) = SumOver(h, t)
           Bad == {t \in SUBSET T : ~Ok(t)}
<1>1. \A t \in SUBSET T : IsFiniteSet(t) /\ IsFiniteSet(Cut(t))
  BY FS_Subset, FS_Singleton, FS_Product DEF Line
<1>2. Bad = {}
  <2> SUFFICES ASSUME Bad # {} PROVE FALSE
    OBVIOUS
  <2>1. PICK t \in Bad : \A u \in Bad : Cardinality(t) <= Cardinality(u)
    BY <1>1, SmallestOf
  <2>2. t \in SUBSET T /\ IsFiniteSet(t) /\ IsFiniteSet(Cut(t)) /\ ~Ok(t)
    BY <1>1, <2>1
  <2>3. t # {}
    <3> SUFFICES ASSUME t = {} PROVE FALSE
      OBVIOUS
    <3>1. Cut(t) = {}
      BY DEF Line
    <3> HIDE DEF Cut
    <3>2. SumOver(g, Cut(t)) = 0 /\ SumOver(h, t) = 0
      BY <2>2, <3>1, SumFirst
    <3>3. QED
      BY <2>2, <3>2
  <2>4. PICK y \in t : TRUE
    BY <2>3
  <2> DEFINE r == t \ {y}
  <2>5. /\ r \in SUBSET T /\ IsFiniteSet(r) /\ Cardinality(r) = Cardinality(t) - 1
        /\ Cardinality(t) \in Nat
    BY <2>2, <2>4, FS_RemoveElement, FS_CardinalityType
  <2>6. <<x, y>> \in Cut(t) /\ Cut(t) \ {<<x, y>>} = Cut(r)
    BY <2>4 DEF Line
  <2>7. \A p \in Cut(t) : g[p] \in Int
    BY <2>2 DEF Line
  <2>8. \A z \in t : h[z] \in Int
    BY <2>2
  <2>9. Ok(r)
    <3>1. ~(Cardinality(t) <= Cardinality(r))
      BY <2>5
    <3> HIDE DEF Ok, r
    <3>2. r \notin Bad
      BY <2>1, <3>1
    <3>3. QED
      BY <2>5, <3>2
  <2> HIDE DEF Cut, r
  <2>10. SumOver(g, Cut(t)) = g[<<x, y>>] + SumOver(g, Cut(r))
    BY <2>2, <2>6, <2>7, SumAny
  <2>11. SumOver(h, t) = h[y] + SumOver(h, r)
    BY <2>2, <2>4, <2>8, SumAny DEF r
  <2>12. h[y] = g[<<x, y>>]
    BY <2>2, <2>4
  <2>13. QED
    BY <2>2, <2>9, <2>10, <2>11, <2>12
<1> HIDE DEF Cut
<1>3. T \in SUBSET T /\ Ok(T)
  BY <1>2
<1>4. QED
  BY <1>3 DEF Cut

LEMMA SumOfRows ==
  ASSUME NEW S, IsFiniteSet(S), NEW T, IsFiniteSet(T), NEW g,
         \A p \in Grid(S, T) : g[p] \in Int,
         NEW h, \A x \in S : h[x] = SumOver(g, Line(x, T))
  PROVE  SumOver(g, Grid(S, T)) = SumOver(h, S)
<1> DEFINE Lines(s) == Grid(s, T)
           Ok(s) == SumOver(g, Lines(s)) = SumOver(h, s)
           Bad == {s \in SUBSET S : ~Ok(s)}
<1>1. \A s \in SUBSET S : IsFiniteSet(s) /\ IsFiniteSet(Lines(s)) /\ \A p \in Lines(s) : g[p] \in Int
  BY FS_Subset, FS_Product DEF Grid
<1>1a. \A x : Lines({x}) = Line(x, T)
  BY DEF Grid, Line
<1>2. Bad = {}
  <2> SUFFICES ASSUME Bad # {} PROVE FALSE
    OBVIOUS
  <2>1. PICK s \in Bad : \A u \in Bad : Cardinality(s) <= Cardinality(u)
    BY <1>1, SmallestOf
  <2>2. /\ s \in SUBSET S /\ IsFiniteSet(s) /\ IsFiniteSet(Lines(s)) /\ ~Ok(s)
        /\ \A p \in Lines(s) : g[p] \in Int
    BY <1>1, <2>1
  <2>3. s # {}
    <3> SUFFICES ASSUME s = {} PROVE FALSE
      OBVIOUS
    <3>1. Lines(s) = {}
      BY DEF Grid
    <3> HIDE DEF Lines
    <3>2. SumOver(g, Lines(s)) = 0 /\ SumOver(h, s) = 0
      BY <2>2, <3>1, SumFirst
    <3>3. QED
      BY <2>2, <3>2
  <2>4. PICK x \in s : TRUE
    BY <2>3
  <2> DEFINE r == s \ {x}
  <2>5. /\ r \in SUBSET S /\ {x} \in SUBSET S /\ IsFiniteSet(r) /\ Cardinality(r) = Cardinality(s) - 1
        /\ Cardinality(s) \in Nat
    BY <2>2, <2>4, FS_RemoveElement, FS_CardinalityType
  <2>6. Lines(r) \intersect Lines({x}) = {} /\ Lines(s) = Lines(r) \union Lines({x})
    BY <2>4 DEF Grid
  <2>7. \A z \in s : h[z] \in Int
    <3> SUFFICES ASSUME NEW z \in s PROVE h[z] \in Int
      OBVIOUS
    <3>1. z \in S /\ {z} \in SUBSET S /\ h[z] = SumOver(g, Lines({z}))
      BY <1>1a, <2>2
    <3> HIDE DEF Lines
    <3>2. IsFiniteSet(Lines({z})) /\ \A p \in Lines({z}) : g[p] \in Int
      BY <1>1, <3>1
    <3>3. QED
      BY <3>1, <3>2, SumFirst
  <2>8. h[x] = SumOver(g, Lines({x}))
    BY <1>1a, <2>2, <2>4
  <2>9. Ok(r)
    <3>1. ~(Cardinality(s) <= Cardinality(r))
      BY <2>5
    <3> HIDE DEF Ok, r
    <3>2. r \notin Bad
      BY <2>1, <3>1
    <3>3. QED
      BY <2>5, <3>2
  <2> HIDE DEF Lines
  <2>10. SumOver(h, s) = h[x] + SumOver(h, r)
    BY <2>2, <2>4, <2>7, SumAny
  <2> HIDE DEF r
  <2>11. /\ IsFiniteSet(Lines(r)) /\ IsFiniteSet(Lines({x}))
         /\ \A p \in Lines(r) \union Lines({x}) : g[p] \in Int
    BY <1>1, <2>5
  <2> DEFINE A == Lines(r)
             B == Lines({x})
  <2>12. SumOver(g, Lines(s)) = SumOver(g, A) + SumOver(g, B)
    <3>1. A \intersect B = {} /\ Lines(s) = A \union B
      BY <2>6, Zenon
    <3>2. IsFiniteSet(A) /\ IsFiniteSet(B) /\ \A p \in A \union B : g[p] \in Int
      BY <2>11, Zenon
    <3> HIDE DEF A, B
    <3>3. SumOver(g, A \union B) = SumOver(g, A) + SumOver(g, B)
      BY <3>1, <3>2, SumOfUnion
    <3>4. QED
      BY <3>1, <3>3
  <2>13. SumOver(g, Lines(r)) \in Int /\ SumOver(g, Lines({x})) \in Int
    BY <2>11, SumFirst
  <2>14. QED
    BY <2>2, <2>8, <2>9, <2>10, <2>12, <2>13
<1> HIDE DEF Lines
<1>3. S \in SUBSET S /\ Ok(S)
  BY <1>2
<1>4. QED
  BY <1>3 DEF Lines

LEMMA SquareOfDifference ==
  ASSUME NEW x \in Int, NEW y \in Int
  PROVE  Square(x - y) = 1 * (y * y) + (-2 * x) * y + x * x
BY DEF Square

LEMMA RowOfSquares ==
  ASSUME NEW x \in Int, NEW n \in Int, NEW s \in Int, NEW q \in Int
  PROVE  1 * q + (-2 * x) * s + (x * x) * n = n * (x * x) + (-2 * s) * x + q
OBVIOUS

LEMMA RowsOfSquares ==
  ASSUME NEW n \in Int, NEW s \in Int, NEW q \in Int
  PROVE  n * q + (-2 * s) * s + q * n = 2 * (n * q - s * s)
OBVIOUS

\* Half the sum of the squared differences of all pairs is the number of values
\* times the sum of their squares, less the square of their sum.
LEMMA SumOfSpread ==
  ASSUME NEW S, IsFiniteSet(S), NEW v, \A x \in S : v[x] \in Int,
         NEW q, \A x \in S : q[x] = v[x] * v[x],
         NEW g, \A x, y \in S : g[<<x, y>>] = Square(v[x] - v[y])
  PROVE  SumOver(g, Grid(S, S))
           = 2 * (Cardinality(S) * SumOver(q, S) - SumOver(v, S) * SumOver(v, S))
<1> DEFINE n == Cardinality(S)
           s == SumOver(v, S)
           t == SumOver(q, S)
           row(x) == [y \in S |-> g[<<x, y>>]]
           h == [x \in S |-> SumOver(g, Line(x, S))]
<1>1. \A x \in S : q[x] \in Int
  OBVIOUS
<1>2. n \in Int /\ s \in Int /\ t \in Int
  <2>1. n \in Int
    BY FS_CardinalityType
  <2>2. s \in Int
    BY SumFirst
  <2>3. t \in Int
    BY <1>1, SumFirst
  <2>4. QED
    BY <2>1, <2>2, <2>3
<1>3. \A x, y \in S : g[<<x, y>>] \in Int
  <2>1. \A a, b \in Int : Square(a - b) \in Int
    BY DEF Square
  <2>2. QED
    BY <2>1
<1>4. ASSUME NEW x \in S PROVE h[x] = n * q[x] + (-2 * s) * v[x] + t
  <2>0. \A y \in S : g[<<x, y>>] \in Int /\ row(x)[y] = g[<<x, y>>]
    BY <1>3
  <2>1. SumOver(g, Line(x, S)) = SumOver(row(x), S)
    <3> DEFINE w == row(x)
    <3>1. \A y \in S : g[<<x, y>>] \in Int /\ w[y] = g[<<x, y>>]
      BY <2>0, Zenon
    <3> HIDE DEF w
    <3>2. SumOver(g, Line(x, S)) = SumOver(w, S)
      BY <3>1, SumOfRow
    <3>3. QED
      BY <3>2 DEF w
  <2>2. \A y \in S : g[<<x, y>>] = 1 * q[y] + (-2 * v[x]) * v[y] + v[x] * v[x]
    BY SquareOfDifference
  <2>3. \A y \in S : row(x)[y] = 1 * q[y] + (-2 * v[x]) * v[y] + v[x] * v[x]
    BY <2>2
  <2>4. 1 \in Int /\ -2 * v[x] \in Int /\ v[x] * v[x] \in Int
    OBVIOUS
  <2> HIDE DEF row
  <2>5. SumOver(row(x), S) = 1 * t + (-2 * v[x]) * s + (v[x] * v[x]) * n
    <3>1. IsLinear(S, row(x), 1, q, -2 * v[x], v, v[x] * v[x])
      BY <1>1, <2>3, <2>4 DEF IsLinear
    <3>2. QED
      BY <3>1, SumOfLinear
  <2> HIDE DEF n, s, t
  <2>6. 1 * t + (-2 * v[x]) * s + (v[x] * v[x]) * n = n * (v[x] * v[x]) + (-2 * s) * v[x] + t
    BY <1>2, RowOfSquares
  <2>7. h[x] = SumOver(g, Line(x, S)) /\ q[x] = v[x] * v[x]
    OBVIOUS
  <2>8. QED
    BY <2>1, <2>5, <2>6, <2>7, Zenon
<1>5. \A p \in Grid(S, S) : g[p] \in Int
  BY <1>3 DEF Grid
<1>6. SumOver(g, Grid(S, S)) = SumOver(h, S)
  <2>1. \A x \in S : h[x] = SumOver(g, Line(x, S))
    BY Zenon
  <2> HIDE DEF h
  <2>2. QED
    BY <1>5, <2>1, SumOfRows
<1> HIDE DEF h
<1> DEFINE b == -2 * s
<1>7. b \in Int
  BY <1>2
<1>8. SumOver(h, S) = n * t + b * s + t * n
  <2>1. \A x \in S : h[x] = n * q[x] + b * v[x] + t
    BY <1>4, Zenon
  <2> HIDE DEF n, s, t, b
  <2>2. SumOver(h, S) = n * SumOver(q, S) + b * SumOver(v, S) + t * Cardinality(S)
    <3>1. IsLinear(S, h, n, q, b, v, t)
      BY <1>1, <1>2, <1>7, <2>1 DEF IsLinear
    <3>2. QED
      BY <3>1, SumOfLinear
  <2>3. QED
    BY <2>2, Zenon DEF n, s, t
<1> HIDE DEF n, s, t
<1>9. SumOver(g, Grid(S, S)) = 2 * (n * t - s * s)
  <2>1. n * t + (-2 * s) * s + t * n = 2 * (n * t - s * s)
    BY <1>2, RowsOfSquares
  <2>2. QED
    BY <1>6, <1>8, <2>1, Zenon DEF b
<1>10. QED
  BY <1>9 DEF n, s, t

-----------------------------------------------------------------------------
(* DDoSDetector *)

TimeBuckets == [at : Nat, count : Nat]

Rates == [Keys -> Int \union {None}]

\* the clients with a rate
Known(v) == {l \in Keys : v[l] # None}

SquaresOn(v, S) == [l \in S |-> v[l] * v[l]]

TrafficInv ==
  /\ clock \in Nat
  /\ buckets \in [Channels -> [Keys -> Seq(TimeBuckets)]]
  /\ sampled \in [Channels -> Rates]
  /\ \A ch \in Channels : dist[ch] = Distribution(sampled[ch])

LEMMA BucketsInWindow ==
  ASSUME NEW list \in Seq(TimeBuckets)
  PROVE  RecentBuckets(list) \in Seq(TimeBuckets)
BY SinceIsAList, Zenon DEF RecentBuckets

LEMMA RateIsKnownOrNone ==
  ASSUME NEW list \in Seq(TimeBuckets)
  PROVE  Rate(list) \in Int \union {None}
<1> DEFINE recent == RecentBuckets(list)
           g == [i \in DOMAIN recent |-> recent[i].count]
<1>1. recent \in Seq(TimeBuckets)
  BY BucketsInWindow
<1>2. Rate(list) = IF Len(recent) < MinSamples THEN None ELSE SumFunction(g)
  BY Zenon DEF Rate
<1> HIDE DEF recent
<1>3. DOMAIN recent = 1..Len(recent) /\ Len(recent) \in Nat
      /\ \A i \in 1..Len(recent) : recent[i] \in TimeBuckets
  BY <1>1, LenProperties, ElementOfSeq
<1>4. DOMAIN g = 1..Len(recent) /\ \A i \in 1..Len(recent) : g[i] \in Int
  BY <1>3 DEF TimeBuckets
<1> HIDE DEF g
<1>5. IsFiniteSet(1..Len(recent))
  BY <1>3, SegmentSize
<1>6. SumOver(g, 1..Len(recent)) \in Int
  BY <1>4, <1>5, SumFirst
<1>7. SumFunction(g) \in Int
  BY <1>4, <1>6, SumOfFunction
<1>8. QED
  BY <1>2, <1>7

LEMMA CountedBuckets ==
  ASSUME clock \in Nat, NEW list \in Seq(TimeBuckets)
  PROVE  Counted(list) \in Seq(TimeBuckets)
<1>1. CASE list # <<>> /\ list[Len(list)].at = clock
  <2> DEFINE e == [list[Len(list)] EXCEPT !.count = @ + 1]
  <2>1. Len(list) \in 1..Len(list)
    BY <1>1, LenProperties, EmptySeq
  <2>2. list[Len(list)] \in TimeBuckets
    BY <2>1, ElementOfSeq
  <2>3. e \in TimeBuckets
    BY <2>2 DEF TimeBuckets
  <2>4. Counted(list) = [list EXCEPT ![Len(list)] = e]
    BY <1>1 DEF Counted
  <2> HIDE DEF e
  <2>5. QED
    BY <2>1, <2>3, <2>4, ExceptSeq
<1>2. CASE ~(list # <<>> /\ list[Len(list)].at = clock)
  <2> DEFINE e == [at |-> clock, count |-> 1]
  <2>1. e \in TimeBuckets
    BY DEF TimeBuckets
  <2>2. Counted(list) = Append(list, e)
    BY <1>2, Zenon DEF Counted
  <2> HIDE DEF e
  <2>3. QED
    BY <2>1, <2>2, AppendProperties
<1>3. QED
  BY <1>1, <1>2

LEMMA Totals ==
  ASSUME NEW v \in Rates
  PROVE  /\ IsFiniteSet(Known(v)) /\ Known(v) \subseteq Keys
         /\ \A l \in Known(v) : v[l] \in Int
         /\ Distribution(v).count = Cardinality(Known(v))
         /\ Distribution(v).sum = SumOver(v, Known(v))
         /\ Distribution(v).squares = SumOver(SquaresOn(v, Known(v)), Known(v))
<1>1. IsFiniteSet(Known(v)) /\ Known(v) \subseteq Keys
  BY TrafficAssumption, FS_Subset DEF Known
<1>2. \A l \in Known(v) : v[l] \in Int
  BY DEF Known, Rates
<1>3. Distribution(v) = [count   |-> Cardinality(Known(v)),
                         sum     |-> SumFunctionOnSet(v, Known(v)),
                         squares |-> SumFunction(SquaresOn(v, Known(v)))]
  BY Zenon DEF Distribution, Known, SquaresOn
<1>4. SumFunctionOnSet(v, Known(v)) = SumOver(v, Known(v))
  BY Zenon DEF SumFunctionOnSet, FoldFunctionOnSet, SumOver, MapThenSumSet
<1>5. DOMAIN SquaresOn(v, Known(v)) = Known(v)
  BY DEF SquaresOn
<1>6. SumFunction(SquaresOn(v, Known(v))) = SumOver(SquaresOn(v, Known(v)), Known(v))
  BY <1>5, SumOfFunction
<1>7. QED
  BY <1>1, <1>2, <1>3, <1>4, <1>6

\* What stats_without leaves is the distribution of the others.
LEMMA TotalsOfPeers ==
  ASSUME NEW v \in Rates, NEW k \in Known(v)
  PROVE  LET P == Known(v) \ {k}
             d == WithoutValue(Distribution(v), v[k])
         IN /\ IsFiniteSet(P) /\ Cardinality(P) \in Nat
            /\ \A l \in P : v[l] \in Int
            /\ Distribution(v).count = Cardinality(P) + 1
            /\ d.count = Cardinality(P)
            /\ d.sum = SumOver(v, P) /\ SumOver(v, P) \in Int
            /\ d.squares = SumOver(SquaresOn(v, P), P) /\ SumOver(SquaresOn(v, P), P) \in Int
<1> DEFINE S == Known(v)
           P == S \ {k}
           q == SquaresOn(v, S)
           r == SquaresOn(v, P)
           d == WithoutValue(Distribution(v), v[k])
<1>1. /\ IsFiniteSet(S) /\ k \in S /\ \A l \in S : v[l] \in Int
      /\ Distribution(v).count = Cardinality(S)
      /\ Distribution(v).sum = SumOver(v, S)
      /\ Distribution(v).squares = SumOver(q, S)
  BY Totals
<1>2. /\ \A l \in S : q[l] = v[l] * v[l]
      /\ \A l \in P : r[l] = v[l] * v[l]
  BY DEF SquaresOn
<1>3. /\ d.count = Distribution(v).count - 1
      /\ d.sum = Distribution(v).sum - v[k]
      /\ d.squares = Distribution(v).squares - v[k] * v[k]
  BY DEF WithoutValue
<1> HIDE DEF S, q, r, d
<1>4. /\ IsFiniteSet(P) /\ Cardinality(P) = Cardinality(S) - 1 /\ Cardinality(S) \in Nat
      /\ Cardinality(S) # 0
  BY <1>1, FS_RemoveElement, FS_CardinalityType, FS_EmptySet
<1>5. SumOver(v, S) = v[k] + SumOver(v, P)
  BY <1>1, SumAny
<1>6. \A x \in Int : x * x \in Int
  OBVIOUS
<1>7. \A l \in S : q[l] \in Int
  BY <1>1, <1>2, <1>6
<1>8. SumOver(q, S) = q[k] + SumOver(q, P)
  BY <1>1, <1>7, SumAny
<1>9. \A l \in P : q[l] \in Int /\ r[l] = q[l]
  BY <1>2, <1>7
<1> HIDE DEF P
<1>10. SumOver(q, P) = SumOver(r, P)
  BY <1>4, <1>9, SumCongruent
<1>11. SumOver(r, P) \in Int
  BY <1>4, <1>9, SumFirst
<1>12. \A l \in P : v[l] \in Int
  BY <1>1 DEF P
<1>13. SumOver(v, P) \in Int
  BY <1>4, <1>12, SumFirst
<1>14. v[k] \in Int /\ v[k] * v[k] \in Int /\ q[k] = v[k] * v[k]
  BY <1>1, <1>2, <1>6
<1>15. Cardinality(P) \in Nat
  BY <1>4, FS_CardinalityType
<1>16. Distribution(v).count = Cardinality(P) + 1 /\ d.count = Cardinality(P)
  BY <1>1, <1>3, <1>4
<1>17. d.sum = SumOver(v, P)
  BY <1>1, <1>3, <1>5, <1>13, <1>14
<1>18. d.squares = SumOver(r, P)
  <2> DEFINE w == v[k] * v[k]
             z == SumOver(r, P)
  <2>1. Distribution(v).squares = w + z /\ d.squares = Distribution(v).squares - w
        /\ w \in Int /\ z \in Int
    BY <1>1, <1>3, <1>8, <1>10, <1>11, <1>14
  <2> HIDE DEF w, z
  <2>2. d.squares = z
    BY <2>1
  <2>3. QED
    BY <2>2 DEF z
<1>19. QED
  BY <1>4, <1>11, <1>12, <1>13, <1>15, <1>16, <1>17, <1>18, Zenon DEF P, S, r, d

LEMMA TwiceTheLarger ==
  ASSUME NEW x \in Int, NEW y \in Int
  PROVE  2 * (IF x > y THEN x ELSE y) = IF 2 * x > 2 * y THEN 2 * x ELSE 2 * y
OBVIOUS

LEMMA BothSidesTwice ==
  ASSUME NEW e \in Int, NEW a \in Int, NEW x \in Int
  PROVE  e > a * x <=> 2 * e > a * (2 * x)
<1>1. a * (2 * x) = 2 * (a * x) /\ a * x \in Int
  OBVIOUS
<1> DEFINE m == a * x
<1> HIDE DEF m
<1>2. m \in Int => (e > m <=> 2 * e > 2 * m)
  OBVIOUS
<1>3. QED
  BY <1>1, <1>2 DEF m

\* The deviation of peers is half the sum of their squared differences.
LEMMA TwiceTheDeviation ==
  ASSUME NEW P, IsFiniteSet(P), NEW v, \A l \in P : v[l] \in Int,
         NEW d, d.count = Cardinality(P), d.sum = SumOver(v, P),
         d.squares = SumOver(SquaresOn(v, P), P)
  PROVE  LET spread == SumFunction([p \in P \X P |-> Square(v[p[1]] - v[p[2]])])
             floor == Square(RateFloor * Cardinality(P))
         IN /\ Deviation(d) \in Int
            /\ 2 * Deviation(d) = IF spread > 2 * floor THEN spread ELSE 2 * floor
<1> DEFINE g == [p \in P \X P |-> Square(v[p[1]] - v[p[2]])]
           q == SquaresOn(v, P)
           n == Cardinality(P)
           s == SumOver(v, P)
           t == SumOver(q, P)
           variance == n * t - s * s
           floor == RateFloor * n
<1>1. \A l \in P : q[l] = v[l] * v[l] /\ q[l] \in Int
  BY DEF SquaresOn
<1>2. n \in Nat /\ RateFloor \in Nat
  BY FS_CardinalityType, TrafficAssumption
<1>3. s \in Int
  BY SumFirst
<1> HIDE DEF q
<1>4. t \in Int
  BY <1>1, SumFirst
<1>5. \A x, y \in P : g[<<x, y>>] = Square(v[x] - v[y])
  OBVIOUS
<1>6. DOMAIN g = Grid(P, P)
  BY DEF Grid
<1> HIDE DEF g
<1>7. SumFunction(g) = SumOver(g, Grid(P, P))
  BY <1>6, SumOfFunction
<1>8. SumOver(g, Grid(P, P)) = 2 * (Cardinality(P) * SumOver(q, P) - SumOver(v, P) * SumOver(v, P))
  BY <1>1, <1>5, SumOfSpread
<1>9. SumFunction(g) = 2 * variance
  BY <1>7, <1>8, Zenon DEF n, s, t, variance
<1>10. Deviation(d) = IF variance > floor * floor THEN variance ELSE floor * floor
  BY DEF Deviation, n, s, t, variance, floor, q
<1> HIDE DEF n, s, t
<1>11. variance \in Int
  BY <1>2, <1>3, <1>4
<1>12. floor \in Int
  BY <1>2
<1> HIDE DEF variance, floor
<1>13. floor * floor \in Int
  BY <1>12
<1> DEFINE f == floor * floor
<1>14. f \in Int /\ Square(RateFloor * Cardinality(P)) = f
  BY <1>13 DEF Square, floor, n
<1>15. Deviation(d) = IF variance > f THEN variance ELSE f
  BY <1>10
<1> HIDE DEF f
<1>16. Deviation(d) \in Int
  BY <1>11, <1>14, <1>15
<1>17. 2 * Deviation(d) = IF 2 * variance > 2 * f THEN 2 * variance ELSE 2 * f
  BY <1>11, <1>14, <1>15, TwiceTheLarger
<1>18. 2 * Deviation(d) = IF SumFunction(g) > 2 * f THEN SumFunction(g) ELSE 2 * f
  BY <1>9, <1>17, Zenon
<1>19. QED
  BY <1>14, <1>16, <1>18, Zenon DEF g

LEMMA SumOfDifferences ==
  ASSUME NEW P, IsFiniteSet(P), NEW v, \A l \in P : v[l] \in Int, NEW rate \in Int
  PROVE  SumFunction([l \in P |-> rate - v[l]]) = Cardinality(P) * rate - SumOver(v, P)
<1> DEFINE f == [l \in P |-> rate - v[l]]
<1> DEFINE m == -1
           o == 0
<1>1. IsLinear(P, f, m, v, o, v, rate)
  BY DEF IsLinear
<1>2. DOMAIN f = P
  OBVIOUS
<1> HIDE DEF f, m, o
<1>3. SumOver(f, P) = m * SumOver(v, P) + o * SumOver(v, P) + rate * Cardinality(P)
  BY <1>1, SumOfLinear
<1>4. SumOver(v, P) \in Int /\ Cardinality(P) \in Int
  <2>1. SumOver(v, P) \in Int
    BY SumFirst
  <2>2. Cardinality(P) \in Int
    BY FS_CardinalityType
  <2>3. QED
    BY <2>1, <2>2
<1>5. \A s, n \in Int : m * s + o * s + rate * n = n * rate - s
  BY DEF m, o
<1>6. SumFunction(f) = SumOver(f, P)
  BY <1>2, SumOfFunction
<1>7. QED
  BY <1>3, <1>4, <1>5, <1>6 DEF f

\* A client with the rate it was sampled with.
LEMMA AmongPeers ==
  ASSUME TrafficInv, NEW ch \in Channels, NEW k \in Keys,
         Rate(buckets[ch][k]) # None, Rate(buckets[ch][k]) = sampled[ch][k]
  PROVE  LET v == sampled[ch]
             P == Known(v) \ {k}
             n == Cardinality(P)
             excess == SumFunction([l \in P |-> v[k] - v[l]])
             spread == SumFunction([p \in P \X P |-> Square(v[p[1]] - v[p[2]])])
             floor == Square(RateFloor * n)
         IN AnomalousOn(ch, k) <=>
              /\ n >= 2 /\ n >= MinClients /\ excess > 0
              /\ 2 * Square(excess) > Square(ZThreshold)
                   * (IF spread > 2 * floor THEN spread ELSE 2 * floor)
<1> DEFINE v == sampled[ch]
           P == Known(v) \ {k}
           n == Cardinality(P)
           d == WithoutValue(Distribution(v), v[k])
           excess == SumFunction([l \in P |-> v[k] - v[l]])
           spread == SumFunction([p \in P \X P |-> Square(v[p[1]] - v[p[2]])])
           floor == Square(RateFloor * n)
           larger == IF spread > 2 * floor THEN spread ELSE 2 * floor
<1>1. v \in Rates /\ dist[ch] = Distribution(v) /\ v[k] # None /\ k \in Known(v)
  BY DEF TrafficInv, Known
<1> DEFINE e == d.count * v[k] - d.sum
<1>2. AnomalousOn(ch, k) <=>
        /\ Distribution(v).count >= 3 /\ Distribution(v).count >= MinClients
        /\ d.count >= MinClients
        /\ e > 0 /\ e * e > ZThreshold * ZThreshold * Deviation(d)
  BY <1>1, Zenon DEF AnomalousOn
<1> HIDE DEF v
<1>3. /\ IsFiniteSet(P) /\ n \in Nat
      /\ \A l \in P : v[l] \in Int
      /\ Distribution(v).count = n + 1
      /\ d.count = n
      /\ d.sum = SumOver(v, P) /\ SumOver(v, P) \in Int
      /\ d.squares = SumOver(SquaresOn(v, P), P)
  BY <1>1, TotalsOfPeers, Zenon
<1>4. v[k] \in Int
  BY <1>1, Totals
<1> HIDE DEF P, d
<1>5. Deviation(d) \in Int /\ 2 * Deviation(d) = larger
  BY <1>3, TwiceTheDeviation, Zenon
<1>6. e = excess
  <2>1. excess = Cardinality(P) * v[k] - SumOver(v, P)
    BY <1>3, <1>4, SumOfDifferences, Zenon
  <2>2. QED
    BY <1>3, <2>1, Zenon
<1>7. e \in Int
  BY <1>3, <1>4
<1> HIDE DEF e, excess, larger, n
<1> DEFINE z == ZThreshold * ZThreshold
<1>8. e * e \in Int /\ z \in Int
  BY <1>7, TrafficAssumption
<1>9. Square(excess) = e * e /\ Square(ZThreshold) = z
  BY <1>6 DEF Square
<1> HIDE DEF z
<1>10. e * e > z * Deviation(d) <=> 2 * (e * e) > z * larger
  BY <1>5, <1>8, BothSidesTwice
<1>11. Distribution(v).count >= 3 <=> n >= 2
  BY <1>3
<1>12. MinClients \in Nat
  BY TrafficAssumption
<1>13. (Distribution(v).count >= MinClients /\ d.count >= MinClients) <=> n >= MinClients
  BY <1>3, <1>12
<1>14. AnomalousOn(ch, k) <=>
        /\ n >= 2 /\ n >= MinClients
        /\ excess > 0 /\ 2 * Square(excess) > Square(ZThreshold) * larger
  BY <1>2, <1>6, <1>9, <1>10, <1>11, <1>13, Zenon DEF z
<1>15. QED
  BY <1>14, Zenon DEF v, P, n, excess, larger

\* One whose rate has changed since.
LEMMA AboveTheAverage ==
  ASSUME TrafficInv, NEW ch \in Channels, NEW k \in Keys, AnomalousOn(ch, k)
  PROVE  LET v == sampled[ch] IN
         Cardinality(Known(v)) * Rate(buckets[ch][k]) > SumFunctionOnSet(v, Known(v))
<1> DEFINE v == sampled[ch]
           rate == Rate(buckets[ch][k])
           c == Distribution(v).count
           s == Distribution(v).sum
<1>1. v \in Rates /\ dist[ch] = Distribution(v)
  BY DEF TrafficInv
<1>2. rate # None /\ (c - 1) * rate - (s - rate) > 0
  BY <1>1 DEF AnomalousOn, WithoutValue
<1>3. rate \in Int
  <2>1. buckets[ch][k] \in Seq(TimeBuckets)
    BY DEF TrafficInv
  <2>2. QED
    BY <1>2, <2>1, RateIsKnownOrNone
<1> HIDE DEF v, rate
<1>4. /\ IsFiniteSet(Known(v)) /\ \A l \in Known(v) : v[l] \in Int
      /\ c = Cardinality(Known(v)) /\ s = SumOver(v, Known(v))
  BY <1>1, Totals
<1>5. c \in Int /\ s \in Int
  <2>1. SumOver(v, Known(v)) \in Int
    BY <1>4, SumFirst
  <2>2. Cardinality(Known(v)) \in Int
    BY <1>4, FS_CardinalityType
  <2>3. QED
    BY <1>4, <2>1, <2>2
<1>6. \A m, r, t \in Int : (m - 1) * r - (t - r) = m * r - t
  OBVIOUS
<1>7. c * rate - s > 0 /\ c * rate \in Int
  BY <1>2, <1>3, <1>5, <1>6
<1>8. SumFunctionOnSet(v, Known(v)) = SumOver(v, Known(v))
  BY Zenon DEF SumFunctionOnSet, FoldFunctionOnSet, SumOver, MapThenSumSet
<1> DEFINE m == c * rate
<1>9. m > s
  <2> HIDE DEF m, s
  <2>1. m \in Int /\ s \in Int /\ m - s > 0
    BY <1>5, <1>7 DEF m
  <2>2. QED
    BY <2>1
<1>10. QED
  BY <1>4, <1>8, <1>9, Zenon DEF v, rate

LEMMA TrafficStart == DetectorsInit => TrafficInv
<1> SUFFICES ASSUME DetectorsInit PROVE TrafficInv
  OBVIOUS
<1> DEFINE none == [k \in Keys |-> None]
<1>1. /\ clock = 0
      /\ buckets = [ch \in Channels |-> [k \in Keys |-> <<>>]]
      /\ dist = [ch \in Channels |-> [count |-> 0, sum |-> 0, squares |-> 0]]
      /\ sampled = [ch \in Channels |-> none]
  BY DEF DetectorsInit, TrafficInit
<1>2. <<>> \in Seq(TimeBuckets)
  BY EmptySeq
<1>3. buckets \in [Channels -> [Keys -> Seq(TimeBuckets)]]
  BY <1>1, <1>2
<1>4. none \in Rates /\ Known(none) = {}
  BY DEF Rates, Known
<1> HIDE DEF none
<1>5. Distribution(none) = [count |-> 0, sum |-> 0, squares |-> 0]
  <2> DEFINE q == SquaresOn(none, {})
  <2>1. Distribution(none) = [count   |-> Cardinality({}),
                              sum     |-> SumFunctionOnSet(none, {}),
                              squares |-> SumFunction(q)]
    BY <1>4, Zenon DEF Distribution, Known, SquaresOn
  <2>2. SumFunctionOnSet(none, {}) = SumOver(none, {})
    BY Zenon DEF SumFunctionOnSet, FoldFunctionOnSet, SumOver, MapThenSumSet
  <2>3. DOMAIN q = {}
    BY DEF SquaresOn
  <2> HIDE DEF q
  <2>4. SumFunction(q) = SumOver(q, {})
    BY <2>3, SumOfFunction
  <2>5. Cardinality({}) = 0 /\ IsFiniteSet({})
    BY FS_EmptySet
  <2>6. \A g : SumOver(g, {}) = 0
    BY <2>5, SumFirst
  <2>7. QED
    BY <2>1, <2>2, <2>4, <2>5, <2>6
<1>6. \A ch \in Channels : sampled[ch] \in Rates /\ dist[ch] = Distribution(sampled[ch])
  BY <1>1, <1>4, <1>5
<1>7. sampled \in [Channels -> Rates]
  BY <1>1, <1>4
<1>8. QED
  BY <1>1, <1>3, <1>6, <1>7 DEF TrafficInv

LEMMA RecordStep ==
  ASSUME TrafficInv, clock' = clock, NEW ch \in Channels, NEW k \in Keys, Record(ch, k)
  PROVE  TrafficInv'
<1>1. /\ clock \in Nat
      /\ buckets \in [Channels -> [Keys -> Seq(TimeBuckets)]]
      /\ sampled \in [Channels -> Rates]
      /\ \A c \in Channels : dist[c] = Distribution(sampled[c])
  BY DEF TrafficInv
<1>2. PICK out \in Outs :
        LET kept == IF ~TidyDue THEN buckets
                    ELSE [c \in Channels |-> [l \in Keys |->
                           IF l \in out[c] THEN <<>> ELSE RecentBuckets(buckets[c][l])]]
            rates == [c \in Channels |-> [l \in Keys |-> Rate(kept[c][l])]]
        IN /\ buckets' = [kept EXCEPT ![ch][k] = Counted(@)]
           /\ IF clock - lastRecompute < RecomputeInterval
              THEN UNCHANGED <<dist, lastRecompute, sampled>>
              ELSE /\ dist' = [c \in Channels |-> Distribution(rates[c])]
                   /\ lastRecompute' = clock
                   /\ sampled' = rates
  BY DEF Record
<1> DEFINE kept == IF ~TidyDue THEN buckets
                   ELSE [c \in Channels |-> [l \in Keys |->
                          IF l \in out[c] THEN <<>> ELSE RecentBuckets(buckets[c][l])]]
           rates == [c \in Channels |-> [l \in Keys |-> Rate(kept[c][l])]]
<1>3. kept \in [Channels -> [Keys -> Seq(TimeBuckets)]]
  <2>1. \A c \in Channels, l \in Keys : RecentBuckets(buckets[c][l]) \in Seq(TimeBuckets)
    BY <1>1, BucketsInWindow
  <2>2. <<>> \in Seq(TimeBuckets)
    BY EmptySeq
  <2>3. QED
    BY <1>1, <2>1, <2>2
<1>4. buckets' = [kept EXCEPT ![ch][k] = Counted(@)]
  BY <1>2, Zenon
<1>5. \/ dist' = dist /\ sampled' = sampled
      \/ dist' = [c \in Channels |-> Distribution(rates[c])] /\ sampled' = rates
  BY <1>2, Zenon
<1> HIDE DEF kept
<1>6. buckets' \in [Channels -> [Keys -> Seq(TimeBuckets)]]
  <2>1. Counted(kept[ch][k]) \in Seq(TimeBuckets)
    BY <1>1, <1>3, CountedBuckets
  <2>2. QED
    BY <1>3, <1>4, <2>1
<1>7. rates \in [Channels -> Rates]
  <2>1. \A c \in Channels, l \in Keys : Rate(kept[c][l]) \in Int \union {None}
    BY <1>3, RateIsKnownOrNone
  <2>2. QED
    BY <2>1 DEF Rates
<1> HIDE DEF rates
<1>8. sampled' \in [Channels -> Rates] /\ \A c \in Channels : dist'[c] = Distribution(sampled'[c])
  BY <1>1, <1>5, <1>7
<1>9. \A v : Distribution(v)' = Distribution(v')
  OBVIOUS
<1>10. QED
  BY <1>1, <1>6, <1>8 DEF TrafficInv

LEMMA TrafficSteps == TrafficInv /\ [DetectorsNext]_detectorsVars => TrafficInv'
<1> SUFFICES ASSUME TrafficInv, [DetectorsNext]_detectorsVars PROVE TrafficInv'
  OBVIOUS
<1>1. \/ clock' = clock /\ TrafficNext
      \/ clock' \in {clock, clock + 1} /\ UNCHANGED trafficVars
  BY DEF DetectorsNext, detectorsVars, DetectorsTick
<1>2. CASE clock' = clock /\ TrafficNext
  BY <1>2, RecordStep DEF TrafficNext
<1>3. CASE clock' \in {clock, clock + 1} /\ UNCHANGED trafficVars
  <2>1. clock' \in Nat /\ buckets' = buckets /\ sampled' = sampled /\ dist' = dist
    BY <1>3 DEF TrafficInv, trafficVars
  <2>2. QED
    BY <2>1 DEF TrafficInv
<1>4. QED
  BY <1>1, <1>2, <1>3

LEMMA PeersAreMeasured == TrafficInv => PeersDecide
<1> SUFFICES ASSUME TrafficInv PROVE PeersDecide
  OBVIOUS
<1> SUFFICES ASSUME NEW ch \in Channels, NEW k \in Keys
             PROVE  LET rate == Rate(buckets[ch][k])
                        known == {l \in Keys : sampled[ch][l] # None}
                        peers == known \ {k}
                        n == Cardinality(peers)
                        excess == SumFunction([l \in peers |-> rate - sampled[ch][l]])
                        twiceSpread == SumFunction(
                          [p \in peers \X peers |-> Square(sampled[ch][p[1]] - sampled[ch][p[2]])])
                        floor == Square(RateFloor * n)
                    IN IF rate # None /\ rate = sampled[ch][k]
                       THEN AnomalousOn(ch, k) <=>
                              /\ n >= 2 /\ n >= MinClients /\ excess > 0
                              /\ 2 * Square(excess) > Square(ZThreshold)
                                   * (IF twiceSpread > 2 * floor THEN twiceSpread ELSE 2 * floor)
                       ELSE AnomalousOn(ch, k) =>
                              Cardinality(known) * rate > SumFunctionOnSet(sampled[ch], known)
  BY Zenon DEF PeersDecide
<1> DEFINE rate == Rate(buckets[ch][k])
<1>1. CASE rate # None /\ rate = sampled[ch][k]
  BY <1>1, AmongPeers, Zenon DEF Known
<1>2. CASE ~(rate # None /\ rate = sampled[ch][k])
  BY <1>2, AboveTheAverage, Zenon DEF Known
<1>3. QED
  BY <1>1, <1>2, Zenon

\* The DDoS detector measures a client against its peers: with the rate the
\* distribution was made from it is anomalous just if there are enough others
\* and it is as far above them as the threshold says, and with another only if
\* it is above the average of all (stats_without, is_http_anomalous).
THEOREM PeersAlwaysDecide == DetectorsSpec => []PeersDecide
BY TrafficStart, TrafficSteps, PeersAreMeasured, PTL DEF DetectorsSpec

=============================================================================
