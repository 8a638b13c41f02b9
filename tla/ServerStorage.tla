--------------------------- MODULE ServerStorage ---------------------------
(***************************************************************************)
(* Storage on a server (core/storage/redis.py, core/storage/mongo.py) next *)
(* to the one in memory: every operation is one command, or one script, of *)
(* the server, and so one step.                                            *)
(*                                                                         *)
(* Redis drops a key when its time is over; every time to live is rounded  *)
(* up, and every increment asks for it again.  Mongo keeps an expired      *)
(* document until its monitor comes by, once a minute; a query has to      *)
(* leave out such a leftover itself, and the unique index on the key       *)
(* refuses a second document next to it.                                   *)
(***************************************************************************)
EXTENDS MemoryStorage

CONSTANTS
  Second, \* how many ticks a second has
  Raised  \* what a call that raises leaves its caller with

ASSUME SecondAssumption == Second \in Nat \ {0}

ASSUME RaisedAssumption == Raised \notin Int

VARIABLE backend \* which of the three this is

serverVars == <<vars, backend>>

ServerInit == Init /\ backend \in {"memory", "redis", "mongo"}

\* Nothing is written.
NoWrite == UNCHANGED <<clock, store, writes, lease>>

\* The command writes e; what was asked for is to keep it until then.
Write(k, e, until) ==
  /\ Put(store, k, e)
  /\ Until(k, until)
  /\ UNCHANGED <<clock, writes>>

\* External: the server gets round to removing what is expired.
Reap(k) ==
  /\ Expired(k)
  /\ Put(store, k, Absent)
  /\ UNCHANGED <<clock, writes, answer, lease>>

\* get(), and exists()
Read(k) == Returns("get", k, <<>>, Found(k)) /\ NoWrite

-----------------------------------------------------------------------------
(* Redis *)

\* Mutant of Rounded: int(ttl) alone, so that half a second is no time at all.
RoundedDown(ttl) == Second * (ttl \div Second)

\* int(ttl) + 1, in ticks
Rounded(ttl) == Second * (ttl \div Second + 1)

\* External: TTL says how many whole seconds are left, to the nearest one.
Nearest(left) == Second * ((2 * left + Second) \div (2 * Second))

\* A write in Redis
Keep(k, v, ttl) == Write(k, Entry(v, clock + Rounded(ttl)), clock + ttl)

\* incr(), increment_by(): INCR and EXPIRE, and TTL, in one transaction
RedisIncrement(k, amount, ttl) ==
  LET count == (IF Live(k) THEN store[k].value ELSE 0) + amount IN
  /\ count <= MaxCount
  /\ Keep(k, count, ttl)
  /\ Counted(k, amount, ttl, count, Nearest(Rounded(ttl)))

RedisSet(k, v, ttl) ==
  Keep(k, v, ttl) /\ Returns("set", k, <<v, ttl>>, Absent)

RedisExpire(k, ttl) ==
  /\ IF Live(k) THEN Keep(k, store[k].value, ttl) ELSE NoWrite
  /\ Returns("expire", k, <<ttl>>, Absent)

\* ttl()
RedisTTL(k) ==
  /\ Returns("ttl", k, <<>>, IF Live(k) THEN Nearest(store[k].exp - clock) ELSE -2)
  /\ NoWrite

\* compare_and_swap(): the script
RedisSwap(k, expected, v, ttl) ==
  /\ IF Found(k) = expected THEN Keep(k, v, ttl) ELSE NoWrite
  /\ Returns("swap", k, <<expected, v, ttl>>, Found(k) = expected)

-----------------------------------------------------------------------------
(* Mongo *)

(***************************************************************************)
(* Dates are written with a time zone (_utcnow()) and come back without    *)
(* one, which is the driver's default (external).  Taking the one from the *)
(* other raises: increment_by() does so when the counter is written        *)
(* already, ttl() whenever there is an entry to speak of.                  *)
(***************************************************************************)
MongoCounted(k, amount, ttl, count) ==
  \/ Returns("incr", k, <<amount, ttl>>, count)
  \/ Returns("increment_by", k, <<amount, ttl>>, Raised)

\* incr(), increment_by(): the upsert finds no live document; next to a
\* leftover its insert is refused, and the driver raises.
MongoIncrement(k, amount, ttl) ==
  \/ /\ store[k] = Absent
     /\ Write(k, Entry(amount, clock + ttl), clock + ttl)
     /\ MongoCounted(k, amount, ttl, amount)
  \/ /\ Live(k)
     /\ store[k].value + amount <= MaxCount
     /\ Write(k, Entry(store[k].value + amount, store[k].exp), lease[k])
     /\ MongoCounted(k, amount, ttl, store[k].value + amount)
  \/ /\ Expired(k)
     /\ NoWrite
     /\ MongoCounted(k, amount, ttl, Raised)

MongoSet(k, v, ttl) ==
  /\ Write(k, Entry(v, clock + ttl), clock + ttl)
  /\ Returns("set", k, <<v, ttl>>, Absent)

\* expire() asks for the key only: it revives a leftover.
MongoExpire(k, ttl) ==
  /\ IF store[k] = Absent THEN NoWrite
     ELSE Write(k, Entry(store[k].value, clock + ttl), clock + ttl)
  /\ Returns("expire", k, <<ttl>>, Absent)

\* ttl()
MongoTTL(k) ==
  Returns("ttl", k, <<>>, IF Live(k) THEN Raised ELSE -2) /\ NoWrite

\* Create-if-absent wants no document at all, a leftover included; a swap
\* wants a live one with the expected value.
Matching(k, expected) ==
  IF expected = Absent THEN store[k] = Absent
  ELSE Live(k) /\ store[k].value = expected

\* compare_and_swap(): a swap that changes nothing counts as none
\* (modified_count).
MongoSwap(k, expected, v, ttl) ==
  LET swaps == Matching(k, expected) /\ store[k] # Entry(v, clock + ttl) IN
  /\ IF swaps THEN Write(k, Entry(v, clock + ttl), clock + ttl) ELSE NoWrite
  /\ Returns("swap", k, <<expected, v, ttl>>, swaps)

-----------------------------------------------------------------------------

ServerNext ==
  /\ \/ backend = "memory" /\ Next
     \/ /\ backend # "memory"
        /\ \/ Tick
           \/ \E k \in Keys : Reap(k) \/ Read(k) \/ Delete(k)
     \/ \E k \in Keys :
          \/ backend = "redis" /\ RedisTTL(k)
          \/ backend = "mongo" /\ MongoTTL(k)
     \/ \E k \in Keys, ttl \in TTLs, v \in Values, e \in 1..MaxCount \union {Absent} :
          \/ /\ backend = "redis"
             /\ \/ RedisIncrement(k, v, ttl) \/ RedisSet(k, v, ttl)
                \/ RedisExpire(k, ttl) \/ RedisSwap(k, e, v, ttl)
          \/ /\ backend = "mongo"
             /\ \/ MongoIncrement(k, v, ttl) \/ MongoSet(k, v, ttl)
                \/ MongoExpire(k, ttl) \/ MongoSwap(k, e, v, ttl)
  /\ UNCHANGED backend

ServerSpec == ServerInit /\ [][ServerNext]_serverVars

-----------------------------------------------------------------------------

\* The map of StorageContract. Redis reckons in seconds, the others exactly.
InTime == INSTANCE StorageContract WITH
  live <- LiveEntries,
  grace <- IF backend = "redis" THEN Second ELSE 0

(***************************************************************************)
(* What the storages do that the map does not, each told by what its       *)
(* caller sees of it.                                                      *)
(***************************************************************************)

\* expire() gives a leftover a new life ("Set expiry on existing key.",
\* core/abstracts.py:104) where it is in the dictionary, or in the
\* collection, still.
RevivesLeftover(k) ==
  /\ backend # "redis"
  /\ Expired(k)
  /\ \E ttl \in TTLs :
       /\ InTime!Put(k, Entry(store[k].value, clock + ttl))
       /\ InTime!Returns("expire", k, <<ttl>>, Absent)

\* ttl() of the dictionary says that a leftover has no time left, not that it
\* is not there ("-2 = not found", core/abstracts.py:114).
SpeaksOfLeftover(k) ==
  /\ backend = "memory"
  /\ Expired(k)
  /\ InTime!Returns("ttl", k, <<>>, 0)
  /\ UNCHANGED LiveEntries

\* An increment in Redis moves the expiry of the counter, where the others
\* keep it ("Increment counter with sliding window expiry.",
\* core/storage/redis.py:104).
RefreshesCounter(k) ==
  /\ backend = "redis"
  /\ \E v \in Values, ttl \in TTLs : InTime!Refresh(k, v, ttl)

\* Next to a leftover in Mongo an increment raises, and create-if-absent is
\* refused although get() has just said that there is nothing.
TripsOverLeftover(k) ==
  /\ backend = "mongo"
  /\ Expired(k)
  /\ \E v \in Values, ttl \in TTLs :
       \/ InTime!Returns("incr", k, <<v, ttl>>, Raised)
       \/ InTime!Returns("increment_by", k, <<v, ttl>>, Raised)
       \/ InTime!Returns("swap", k, <<Absent, v, ttl>>, FALSE)
  /\ UNCHANGED LiveEntries

\* A swap in Mongo for what is there already is denied.
SwapsForTheSame(k) ==
  /\ backend = "mongo"
  /\ \E v \in Values, ttl \in TTLs :
       /\ LiveEntries[k] = Entry(v, clock + ttl)
       /\ InTime!Returns("swap", k, <<v, v, ttl>>, FALSE)
  /\ UNCHANGED LiveEntries

\* increment_by() in Mongo makes its increment and raises; ttl() raises, too.
LosesTheAnswer(k) ==
  /\ backend = "mongo"
  /\ \/ \E v \in Values, ttl \in TTLs : \E e \in InTime!Incremented(k, v, ttl) :
          InTime!Put(k, e) /\ InTime!Returns("increment_by", k, <<v, ttl>>, Raised)
     \/ /\ Live(k)
        /\ InTime!Returns("ttl", k, <<>>, Raised)
        /\ UNCHANGED LiveEntries

Departure ==
  /\ \E k \in Keys :
       \/ RevivesLeftover(k) \/ SpeaksOfLeftover(k) \/ RefreshesCounter(k)
       \/ TripsOverLeftover(k) \/ SwapsForTheSame(k) \/ LosesTheAnswer(k)
  /\ UNCHANGED <<clock, backend>>

(***************************************************************************)
(* Refinement: seen through their operations all three are the map the     *)
(* algorithms rely on, kept for the time asked for and, in Redis, for at   *)
(* most a second more, but for the departures above.  Of the operations    *)
(* they concern the repository calls compare_and_swap (the algorithms,     *)
(* which try again) and increment_by (bans and challenge counters); it     *)
(* calls neither expire() nor ttl() on a Storage.                          *)
(***************************************************************************)
ServersImplementContract ==
  /\ InTime!Init
  /\ [][InTime!Next \/ Departure]_<<clock, LiveEntries, answer>>

=============================================================================
