-------------------------- MODULE StorageContract --------------------------
(***************************************************************************)
(* What the algorithms rely on when they talk to a Storage (core/          *)
(* abstracts.py:68-145): a map whose entries vanish at the moment their    *)
(* time to live is over, every operation on it being one atomic step.      *)
(*                                                                         *)
(* A storage that reckons in whole units of time (grace is the unit, 0 if  *)
(* it has none) keeps an entry for less than a unit longer than it was     *)
(* asked to, or for just a unit longer, and says what is left to the       *)
(* nearest unit.                                                           *)
(***************************************************************************)
EXTENDS Integers, FiniteSets

CONSTANTS
  Keys,     \* keys
  Values,   \* values a caller may write: counters
  TTLs,     \* times to live a caller may ask for
  Absent,   \* no entry; None
  MaxCount  \* bound on a counter

VARIABLES
  clock,  \* time, in ticks
  live,   \* the map
  answer, \* the last call, what it was asked and what it returned
  grace   \* the unit the storage reckons in

vars == <<clock, live, answer, grace>>

Entry(v, exp) == [value |-> v, exp |-> exp]

Init ==
  /\ clock = 0
  /\ live = [k \in Keys |-> Absent]
  /\ answer = <<>>
  /\ grace \in Nat

\* The times an entry is kept for when ttl is asked for.
Kept(ttl) == ttl..(ttl + grace)

\* What may be said of a time t that is left.
About(t) == {u \in 0..(t + grace) : 2 * (u - t) \in -grace..grace}

\* The call op(k, args) returns result.
Returns(op, k, args, result) == answer' = <<op, k, args, result>>

Tick ==
  /\ clock' = clock + 1
  /\ live' = [k \in Keys |->
                IF live[k] # Absent /\ live[k].exp = clock + 1 THEN Absent
                ELSE live[k]]
  /\ UNCHANGED answer

\* The entry of k becomes e.
Put(k, e) == live' = [live EXCEPT ![k] = e]

\* The value an operation finds under k.
Found(k) == IF live[k] = Absent THEN Absent ELSE live[k].value

\* What an increment makes of k: a counter keeps the expiry it was created with.
Incremented(k, amount, ttl) ==
  IF live[k] = Absent THEN {Entry(amount, clock + t) : t \in Kept(ttl)}
  ELSE {Entry(live[k].value + amount, live[k].exp)}

\* incr returns the counter, increment_by the time it has left, too.
Counted(k, amount, ttl, e) ==
  \/ Returns("incr", k, <<amount, ttl>>, e.value)
  \/ Returns("increment_by", k, <<amount, ttl>>, <<e.value, e.exp - clock>>)

Increment(k, amount, ttl) ==
  /\ \E e \in Incremented(k, amount, ttl) :
       e.value <= MaxCount /\ Put(k, e) /\ Counted(k, amount, ttl, e)
  /\ UNCHANGED clock

\* An increment of a counter that moves its expiry: not one of the contract's
\* operations.
Refresh(k, amount, ttl) ==
  /\ live[k] # Absent
  /\ \E t \in Kept(ttl) :
       LET e == Entry(live[k].value + amount, clock + t) IN
       e.value <= MaxCount /\ Put(k, e) /\ Counted(k, amount, ttl, e)
  /\ UNCHANGED clock

\* get, and exists, which tells absent from present
Get(k) ==
  /\ Returns("get", k, <<>>, Found(k))
  /\ UNCHANGED <<clock, live>>

Set(k, v, ttl) ==
  /\ \E t \in Kept(ttl) : Put(k, Entry(v, clock + t))
  /\ Returns("set", k, <<v, ttl>>, Absent)
  /\ UNCHANGED clock

Delete(k) ==
  /\ Put(k, Absent)
  /\ Returns("delete", k, <<>>, Absent)
  /\ UNCHANGED clock

\* "Set expiry on existing key."
Expire(k, ttl) ==
  /\ IF live[k] = Absent THEN UNCHANGED live
     ELSE \E t \in Kept(ttl) : Put(k, Entry(live[k].value, clock + t))
  /\ Returns("expire", k, <<ttl>>, Absent)
  /\ UNCHANGED clock

\* "Get remaining TTL for key (-1 = no expiry, -2 = not found)."
TimeLeft(k) ==
  /\ \E left \in IF live[k] = Absent THEN {-2} ELSE About(live[k].exp - clock) :
       Returns("ttl", k, <<>>, left)
  /\ UNCHANGED <<clock, live>>

\* compare_and_swap, with expected = Absent for create-if-absent
Swap(k, expected, v, ttl) ==
  /\ \/ /\ Found(k) = expected
        /\ \E t \in Kept(ttl) : Put(k, Entry(v, clock + t))
        /\ Returns("swap", k, <<expected, v, ttl>>, TRUE)
     \/ /\ Found(k) # expected
        /\ UNCHANGED live
        /\ Returns("swap", k, <<expected, v, ttl>>, FALSE)
  /\ UNCHANGED clock

\* close() of a storage that lives in the process, or the process is restarted
Clear ==
  /\ live' = [k \in Keys |-> Absent]
  /\ answer' = <<"close">>
  /\ UNCHANGED clock

\* len()
Length ==
  /\ answer' = <<"len", Cardinality({k \in Keys : live[k] # Absent})>>
  /\ UNCHANGED <<clock, live>>

Next ==
  /\ \/ Tick
     \/ Clear
     \/ Length
     \/ \E k \in Keys :
          \/ Get(k) \/ Delete(k) \/ TimeLeft(k)
          \/ \E ttl \in TTLs :
               \/ Expire(k, ttl)
               \/ \E v \in Values :
                    \/ Increment(k, v, ttl) \/ Set(k, v, ttl)
                    \/ \E e \in 1..MaxCount \union {Absent} : Swap(k, e, v, ttl)
  /\ UNCHANGED grace

Spec == Init /\ [][Next]_vars

=============================================================================
