------------------------------- MODULE Sketches -------------------------------
(***************************************************************************)
(* The probabilistic structures (storage/probabilistic.py): what was added *)
(* to a sketch must be found again, whatever it may find besides.  A lock  *)
(* makes each method one step as far as others see, but an add's kicks are *)
(* steps of their own here, in which nothing else can happen to the filter;*)
(* and merge() only takes the lock of the sketch it writes, so that the one*)
(* it reads goes on counting.                                              *)
(*                                                                         *)
(* The hashes are constants.  The estimate that HyperLogLog makes of its   *)
(* registers is left out.                                                  *)
(***************************************************************************)
EXTENDS Integers, SequencesExt

CONSTANTS
  Items,       \* keys that are added
  Rows,        \* the hashes of CountMinSketch and of BloomFilter
  Width,       \* number of cells of a row
  Cell,        \* the cell an item has in each row
  Bits,        \* the bits of the number of one of CuckooFilter's buckets
  BucketSize,  \* bucket_size
  MaxKicks,    \* max_kicks
  Bucket,      \* _get_index of an item
  Fingerprint, \* _fingerprint of an item
  HashFp,      \* _hash_fp of a fingerprint
  Registers,   \* HyperLogLog's registers, 1..n
  Register,    \* the register of an item
  Rank,        \* what the item counts there
  MaxAdds,     \* bound on the items added to a sketch
  NoHand       \* no fingerprint is on its way

ASSUME SketchAssumption ==
  /\ IsFiniteSet(Items)
  /\ IsFiniteSet(Rows) /\ Rows # {}
  /\ Width \in Nat
  /\ Cell \in [Rows -> [Items -> 0..(Width - 1)]]
  /\ IsFiniteSet(Bits)
  /\ BucketSize \in Nat
  /\ MaxKicks \in Nat
  /\ Bucket \in [Items -> SUBSET Bits]
  /\ IsFiniteSet(Registers) /\ Registers # {} /\ Registers = 1..Cardinality(Registers)
  /\ Register \in [Items -> Registers]
  /\ Rank \in [Items -> Nat]
  /\ \A i \in Items : NoHand \notin [fp : {Fingerprint[i]}, at : SUBSET Bits, left : Nat]

VARIABLES
  table,    \* CountMinSketch._table
  bits,     \* BloomFilter._bit_array
  added,    \* history: how often each item was added to these two
  cuckoo,   \* CuckooFilter._buckets
  count,    \* CuckooFilter._count
  hand,     \* the fingerprint an add has displaced, and the kicks it has left
  members,  \* history: how often each item should be in it
  lost,     \* history: fingerprints it has lost, be it to an add that failed
            \* or to the removal of an item it never had
  hll,      \* the registers of two HyperLogLogs
  merging,  \* the register merge() has come to in the first; 0 without a merge
  counted,  \* history: the items each of them should count
  promised  \* history: those that were in the second when the merge began

countVars == <<table, bits, added>>
cuckooVars == <<cuckoo, count, hand, members, lost>>
hllVars == <<hll, merging, counted, promised>>
sketchVars == <<countVars, cuckooVars, hllVars>>

SketchesInit ==
  /\ table = [r \in Rows |-> [c \in 0..(Width - 1) |-> 0]]
  /\ bits = [c \in 0..(Width - 1) |-> FALSE]
  /\ added = [i \in Items |-> 0]
  /\ cuckoo = [b \in SUBSET Bits |-> <<>>]
  /\ count = 0
  /\ hand = NoHand
  /\ members = [i \in Items |-> 0]
  /\ lost = 0
  /\ hll = [h \in 1..2 |-> [r \in Registers |-> 0]]
  /\ merging = 0
  /\ counted = [h \in 1..2 |-> {}]
  /\ promised = {}

-----------------------------------------------------------------------------
(* CountMinSketch and BloomFilter, which are given the same items *)

AddItem(i) ==
  /\ SumFunction(added) < MaxAdds
  /\ table' = [r \in Rows |-> [table[r] EXCEPT ![Cell[r][i]] = @ + 1]]
  /\ bits' = [c \in DOMAIN bits |-> bits[c] \/ \E r \in Rows : Cell[r][i] = c]
  /\ added' = [added EXCEPT ![i] = @ + 1]
  /\ UNCHANGED <<cuckooVars, hllVars>>

Estimate(i) == Min({table[r][Cell[r][i]] : r \in Rows})

MightContain(i) == \A r \in Rows : bits[Cell[r][i]]

-----------------------------------------------------------------------------
(* CuckooFilter.  There are 2^n buckets: their numbers are the sets of n    *)
(* bits, and to reduce a number to theirs is to drop its other bits.        *)

\* Mutant of Alternate: the bits of b only clear those of the hash.
AlternateAndNot(b, fp) == (HashFp[fp] \ b) \intersect Bits

\* _get_alt_index
Alternate(b, fp) == SymDiff(b, HashFp[fp]) \intersect Bits

Room(bs, b) == Len(bs[b]) < BucketSize

\* The add, which has the lock, is through with its kicks.
LockIsFree == hand = NoHand

\* a fingerprint finds room in bucket b of bs
Put(bs, b, fp) ==
  /\ cuckoo' = [bs EXCEPT ![b] = Append(@, fp)]
  /\ count' = count + 1
  /\ hand' = NoHand

\* add: the fingerprint goes to one of its buckets, if there is room.
AddMember(i) ==
  LET fp == Fingerprint[i]
      b == Bucket[i]
      other == Alternate(b, fp)
  IN /\ LockIsFree
     /\ SumFunction(members) < MaxAdds
     /\ \/ Room(cuckoo, b) /\ Put(cuckoo, b, fp)
        \/ ~Room(cuckoo, b) /\ Room(cuckoo, other) /\ Put(cuckoo, other, fp)
        \/ /\ ~Room(cuckoo, b) /\ ~Room(cuckoo, other)
           /\ hand' = [fp |-> fp, at |-> b, left |-> MaxKicks]
           /\ UNCHANGED <<cuckoo, count>>
     /\ members' = [members EXCEPT ![i] = @ + 1]
     /\ UNCHANGED <<countVars, hllVars, lost>>

(***************************************************************************)
(* The fingerprint in hand takes the place of a random one in its bucket,  *)
(* which goes to its own other bucket or, where that is full, is the next  *)
(* in hand - still at the first bucket, as victim_idx never is another.    *)
(***************************************************************************)
Kick ==
  LET b == hand.at IN
  /\ ~LockIsFree
  /\ hand.left > 0
  /\ \E p \in DOMAIN cuckoo[b] :
       LET victim == cuckoo[b][p]
           other == Alternate(b, victim)
           swapped == [cuckoo EXCEPT ![b][p] = hand.fp]
       IN \/ Room(swapped, other) /\ Put(swapped, other, victim)
          \/ /\ ~Room(swapped, other)
             /\ cuckoo' = swapped
             /\ hand' = [fp |-> victim, at |-> b, left |-> hand.left - 1]
             /\ UNCHANGED count
  /\ UNCHANGED <<countVars, hllVars, members, lost>>

\* The add fails, and what it has in hand then is lost; so it is at once
\* where buckets have no places at all.
GiveUp ==
  /\ ~LockIsFree
  /\ hand.left = 0 \/ cuckoo[hand.at] = <<>>
  /\ hand' = NoHand
  /\ lost' = lost + 1
  /\ UNCHANGED <<countVars, hllVars, cuckoo, count, members>>

Holds(b, fp) == \E p \in DOMAIN cuckoo[b] : cuckoo[b][p] = fp

\* check
IsMember(i) ==
  LET fp == Fingerprint[i] IN Holds(Bucket[i], fp) \/ Holds(Alternate(Bucket[i], fp), fp)

\* list.remove takes the first one
Removed(list, fp) ==
  RemoveAt(list, CHOOSE p \in DOMAIN list : list[p] = fp /\ \A o \in 1..(p - 1) : list[o] # fp)

\* remove: the fingerprint it finds may be another item's.
RemoveMember(i) ==
  LET fp == Fingerprint[i]
      b == IF Holds(Bucket[i], fp) THEN Bucket[i] ELSE Alternate(Bucket[i], fp)
  IN /\ LockIsFree
     /\ IsMember(i)
     /\ cuckoo' = [cuckoo EXCEPT ![b] = Removed(@, fp)]
     /\ count' = count - 1
     /\ IF members[i] > 0
        THEN members' = [members EXCEPT ![i] = @ - 1] /\ UNCHANGED lost
        ELSE lost' = lost + 1 /\ UNCHANGED members
     /\ UNCHANGED <<countVars, hllVars, hand>>

-----------------------------------------------------------------------------
(* HyperLogLog *)

\* add
CountIn(h, i) ==
  /\ h = 1 => merging = 0
  /\ hll' = [hll EXCEPT ![h][Register[i]] = Max({@, Rank[i]})]
  /\ counted' = [counted EXCEPT ![h] = @ \union {i}]
  /\ UNCHANGED <<countVars, cuckooVars, merging, promised>>

StartMerge ==
  /\ merging = 0
  /\ merging' = 1
  /\ promised' = counted[2]
  /\ UNCHANGED <<countVars, cuckooVars, hll, counted>>

\* merge, one register at a time
MergeRegister ==
  /\ merging # 0
  /\ hll' = [hll EXCEPT ![1][merging] = Max({@, hll[2][merging]})]
  /\ IF merging = Cardinality(Registers)
     THEN merging' = 0 /\ counted' = [counted EXCEPT ![1] = @ \union promised]
     ELSE merging' = merging + 1 /\ UNCHANGED counted
  /\ UNCHANGED <<countVars, cuckooVars, promised>>

-----------------------------------------------------------------------------

(***************************************************************************)
(* Nothing that was added is forgotten: "always overestimates, never       *)
(* underestimates" (probabilistic.py:25), "never false negatives" (:100),  *)
(* a merged HyperLogLog counts all that either had when the merge began,   *)
(* and a cuckoo filter finds every member, wherever it was moved, until    *)
(* its first loss.  It loses just one fingerprint for each add that fails, *)
(* although that add only says that its own item was not added, and for    *)
(* each removal of what was not there.                                     *)
(***************************************************************************)
NothingIsForgotten ==
  /\ \A i \in Items : Estimate(i) >= added[i] /\ (added[i] > 0 => MightContain(i))
  /\ \A h \in 1..2 : \A i \in counted[h] : hll[h][Register[i]] >= Rank[i]
  /\ LockIsFree =>
       /\ lost = 0 => \A i \in Items : members[i] > 0 => IsMember(i)
       /\ count = SumFunction(members) - lost
  /\ count = SumFunction([b \in DOMAIN cuckoo |-> Len(cuckoo[b])])

=============================================================================
