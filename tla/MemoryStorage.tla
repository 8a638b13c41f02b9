--------------------------- MODULE MemoryStorage ---------------------------
(***************************************************************************)
(* MemoryStorage (core/storage/memory.py): a dictionary under a lock.  An  *)
(* entry whose time to live is over stays there until a read or a swap     *)
(* runs into it, or until a write operation sweeps the whole dictionary,   *)
(* which every cleanup_interval-th write operation does.                   *)
(*                                                                         *)
(* The lock makes each operation one step.                                 *)
(***************************************************************************)
EXTENDS Integers, FiniteSets

CONSTANTS
  Keys,     \* keys
  Values,   \* values a caller may write: counters
  TTLs,     \* times to live a caller may ask for
  Interval, \* _cleanup_interval, 100 in the code
  Absent,   \* no entry; None
  MaxCount, \* bound on a counter
  MaxClock  \* bound on the clock

ASSUME ConstantsAssumption ==
  /\ Values \subseteq 1..MaxCount
  /\ TTLs \subseteq Nat \ {0}
  /\ Interval \in Nat \ {0}
  /\ MaxCount \in Nat
  /\ MaxClock \in Nat

ASSUME AbsentAssumption ==
  /\ Absent \notin [value : Int, exp : Int]
  /\ Absent \notin Int

VARIABLES
  clock,  \* time.monotonic(), in ticks
  store,  \* _store
  writes, \* _ops_since_cleanup
  answer, \* the last call, what it was asked and what it returned
  lease   \* history: until when each entry was asked to be kept

vars == <<clock, store, writes, answer, lease>>

Entry(v, exp) == [value |-> v, exp |-> exp]

Expired(k) == store[k] # Absent /\ store[k].exp <= clock

Live(k) == store[k] # Absent /\ store[k].exp > clock

-----------------------------------------------------------------------------

Init ==
  /\ clock = 0
  /\ store = [k \in Keys |-> Absent]
  /\ writes = 0
  /\ answer = <<>>
  /\ lease = [k \in Keys |-> 0]

Tick ==
  /\ clock < MaxClock
  /\ clock' = clock + 1
  /\ UNCHANGED <<store, writes, answer, lease>>

\* _cleanup_expired()
Swept == [k \in Keys |-> IF Expired(k) THEN Absent ELSE store[k]]

\* _maybe_cleanup(): the dictionary a write operation goes on with
SweepDue == writes + 1 >= Interval

Tidied == IF SweepDue THEN Swept ELSE store

CountWrite == writes' = IF SweepDue THEN 0 ELSE writes + 1

\* The entry of k in dictionary s becomes e.
Put(s, k, e) == store' = [s EXCEPT ![k] = e]

Until(k, t) == lease' = [lease EXCEPT ![k] = t]

\* The call op(k, args) returns result, Absent if it returns nothing.
Returns(op, k, args, result) == answer' = <<op, k, args, result>>

\* incr() returns the counter, increment_by() what time it has left, too.
Counted(k, amount, ttl, count, left) ==
  \/ Returns("incr", k, <<amount, ttl>>, count)
  \/ Returns("increment_by", k, <<amount, ttl>>, <<count, left>>)

(***************************************************************************)
(* incr() and increment_by(), which make the same changes: an expired      *)
(* counter is created anew, a live one keeps its expiry.                   *)
(***************************************************************************)
Increment(k, amount, ttl) ==
  /\ CountWrite
  /\ \/ /\ ~Live(k)
        /\ Put(Tidied, k, Entry(amount, clock + ttl))
        /\ Counted(k, amount, ttl, amount, ttl)
        /\ Until(k, clock + ttl)
     \/ /\ Live(k)
        /\ store[k].value + amount <= MaxCount
        /\ Put(Tidied, k, Entry(store[k].value + amount, store[k].exp))
        /\ Counted(k, amount, ttl, store[k].value + amount, store[k].exp - clock)
        /\ UNCHANGED lease
  /\ UNCHANGED clock

\* Mutant of Found: an expired value is as good as any.
FoundAtAll(k) == IF store[k] = Absent THEN Absent ELSE store[k].value

\* The value an operation finds under k.
Found(k) == IF Live(k) THEN store[k].value ELSE Absent

\* get(), and exists(): running into an expired entry deletes it.
Get(k) ==
  /\ Put(store, k, IF Expired(k) THEN Absent ELSE store[k])
  /\ Returns("get", k, <<>>, Found(k))
  /\ UNCHANGED <<clock, writes, lease>>

Set(k, v, ttl) ==
  /\ CountWrite
  /\ Put(Tidied, k, Entry(v, clock + ttl))
  /\ Returns("set", k, <<v, ttl>>, Absent)
  /\ Until(k, clock + ttl)
  /\ UNCHANGED clock

Delete(k) ==
  /\ Put(store, k, Absent)
  /\ Returns("delete", k, <<>>, Absent)
  /\ Until(k, 0)
  /\ UNCHANGED <<clock, writes>>

\* expire(): whatever is in the dictionary is given a new expiry.
Expire(k, ttl) ==
  /\ IF store[k] = Absent THEN UNCHANGED store
     ELSE Put(store, k, Entry(store[k].value, clock + ttl))
  /\ Returns("expire", k, <<ttl>>, Absent)
  /\ IF Live(k) THEN Until(k, clock + ttl) ELSE UNCHANGED lease
  /\ UNCHANGED <<clock, writes>>

\* ttl()
TimeLeft(k) ==
  /\ Returns("ttl", k, <<>>, IF store[k] = Absent THEN -2
                            ELSE IF Expired(k) THEN 0 ELSE store[k].exp - clock)
  /\ UNCHANGED <<clock, store, writes, lease>>

(***************************************************************************)
(* compare_and_swap(): an expired entry is deleted, whatever comes of it.  *)
(* It is the one write operation that does not count towards a sweep.      *)
(***************************************************************************)
Swap(k, expected, v, ttl) ==
  /\ \/ /\ Found(k) = expected
        /\ Put(store, k, Entry(v, clock + ttl))
        /\ Returns("swap", k, <<expected, v, ttl>>, TRUE)
        /\ Until(k, clock + ttl)
     \/ /\ Found(k) # expected
        /\ Put(store, k, IF Expired(k) THEN Absent ELSE store[k])
        /\ Returns("swap", k, <<expected, v, ttl>>, FALSE)
        /\ UNCHANGED lease
  /\ UNCHANGED <<clock, writes>>

\* close()
Close ==
  /\ store' = [k \in Keys |-> Absent]
  /\ answer' = <<"close">>
  /\ lease' = [k \in Keys |-> 0]
  /\ UNCHANGED <<clock, writes>>

\* __len__(): what is counted has been swept.
Length ==
  /\ store' = Swept
  /\ answer' = <<"len", Cardinality({k \in Keys : Swept[k] # Absent})>>
  /\ UNCHANGED <<clock, writes, lease>>

Next ==
  \/ Tick
  \/ Close
  \/ Length
  \/ \E k \in Keys :
       \/ Get(k) \/ Delete(k) \/ TimeLeft(k)
       \/ \E ttl \in TTLs :
            \/ Expire(k, ttl)
            \/ \E v \in Values :
                 \/ Increment(k, v, ttl) \/ Set(k, v, ttl)
                 \/ \E e \in 1..MaxCount \union {Absent} : Swap(k, e, v, ttl)

Spec == Init /\ [][Next]_vars

-----------------------------------------------------------------------------

(***************************************************************************)
(* Type invariant: what is stored was written by an operation, and the     *)
(* count of writes never reaches the sweep's interval between operations.  *)
(***************************************************************************)
TypeOK ==
  /\ clock \in 0..MaxClock
  /\ store \in [Keys -> [value : 1..MaxCount, exp : Nat] \union {Absent}]
  /\ writes \in 0..(Interval - 1)
  /\ lease \in [Keys -> Nat]

(***************************************************************************)
(* Neither a sweep nor a read that tidies up ever takes an entry away      *)
(* before the time its last writer gave it is over, nor does an operation  *)
(* on another key.                                                         *)
(***************************************************************************)
KeptForItsTime == \A k \in Keys : lease[k] > clock => Live(k)

-----------------------------------------------------------------------------

\* What the operations let a caller see of the dictionary: what is left over
\* in it is not there.
LiveEntries == [k \in Keys |-> IF Live(k) THEN store[k] ELSE Absent]

=============================================================================
