------------------------------ MODULE Throttle ------------------------------
(***************************************************************************)
(* DRF throttles (adapters/django/throttle.py) called by threads that do   *)
(* not lock anything: a cache of algorithms, least recently used first to  *)
(* go, a storage made on first use, and one bucket per user and storage.   *)
(* Where an event loop runs in the thread already, the bridge              *)
(* (utils/async_utils.py) hands the call to a loop in the background and   *)
(* waits for it.  Each line of the code that touches shared state is a     *)
(* step.                                                                   *)
(***************************************************************************)
EXTENDS Integers, Sequences, SequencesExt, FiniteSets

CONSTANTS
  Threads,       \* worker threads
  Rates,         \* a throttle's scope and rate: the key of the cache
  RateLimit,     \* the limit of each rate
  MaxAlgorithms, \* _MAX_ALGORITHMS
  MaxCalls,      \* bound: calls in all
  NoLoop         \* no background loop yet

ASSUME ThrottleAssumption ==
  /\ IsFiniteSet(Threads)
  /\ IsFiniteSet(Rates) /\ Rates # {}
  /\ RateLimit \in [Rates -> Nat \ {0}]
  /\ MaxAlgorithms \in Nat \ {0}
  /\ MaxCalls \in Nat
  /\ NoLoop \notin Nat

VARIABLES
  configured, \* settings.DROGUE_STORAGE has a storage
  cache,    \* _algorithms: rates, the least recently used first
  madeWith, \* the storage the algorithm of each rate was made with
  held,     \* the storage of the algorithm a thread is making or was given
  storage,  \* _storage: which one is in the global; 0 for None
  storages, \* how many there have been
  tokens,   \* the user's bucket in each storage; -1 before its first use
  tpc,      \* what each thread does next
  rate,     \* the rate it was called for
  loop,     \* _bg_loop
  running,  \* the background loops whose thread is up
  loops,    \* how many have been made
  mine,     \* the loop a thread handed its call to
  calls,    \* calls so far
  served    \* history: how many were allowed

throttleVars ==
  <<configured, cache, madeWith, held, storage, storages, tokens, tpc, rate,
    loop, running, loops, mine, calls, served>>

Stores == 1..Cardinality(Threads)

ThrottleInit ==
  /\ configured \in BOOLEAN
  /\ cache = <<>>
  /\ madeWith = [v \in Rates |-> 0]
  /\ held = [t \in Threads |-> 0]
  /\ storage = 0
  /\ storages = 0
  /\ tokens = [s \in Stores |-> -1]
  /\ tpc = [t \in Threads |-> "idle"]
  /\ rate = [t \in Threads |-> CHOOSE v \in Rates : TRUE]
  /\ loop = NoLoop
  /\ running = {}
  /\ loops = 0
  /\ mine = [t \in Threads |-> NoLoop]
  /\ calls = 0
  /\ served = 0

At(t, label, next) == tpc[t] = label /\ tpc' = [tpc EXCEPT ![t] = next]

SameStorage == UNCHANGED <<configured, storage, storages, tokens, served>>

SameLoops == UNCHANGED <<configured, loop, running, loops, mine>>

\* allow_request, get_rate: with no rate there is nothing to do.  cache_key
\* in _algorithms?
Lookup(t, v) ==
  /\ calls < MaxCalls
  /\ At(t, "idle", IF Contains(cache, v) THEN "touch" ELSE "room")
  /\ rate' = [rate EXCEPT ![t] = v]
  /\ calls' = calls + 1
  /\ SameStorage /\ SameLoops /\ UNCHANGED <<cache, madeWith, held>>

\* move_to_end: what another thread has evicted since is a KeyError.
Touch(t) ==
  /\ IF Contains(cache, rate[t])
     THEN /\ At(t, "touch", "fetch")
          /\ cache' = Append(RemoveFirst(cache, rate[t]), rate[t])
     ELSE At(t, "touch", "idle") /\ UNCHANGED cache
  /\ SameStorage /\ SameLoops /\ UNCHANGED <<madeWith, held, rate, calls>>

\* return _algorithms[cache_key], with the same risk
Fetch(t) ==
  /\ IF Contains(cache, rate[t])
     THEN At(t, "fetch", "bridge") /\ held' = [held EXCEPT ![t] = madeWith[rate[t]]]
     ELSE At(t, "fetch", "idle") /\ UNCHANGED held
  /\ SameStorage /\ SameLoops /\ UNCHANGED <<cache, madeWith, rate, calls>>

\* Mutant of CacheFull: one more fits.
CacheFullLater == Len(cache) > MaxAlgorithms

CacheFull == Len(cache) >= MaxAlgorithms

\* len(_algorithms) >= _MAX_ALGORITHMS?
MakeRoom(t) ==
  /\ At(t, "room", IF CacheFull THEN "evict" ELSE "storage")
  /\ SameStorage /\ SameLoops /\ UNCHANGED <<cache, madeWith, held, rate, calls>>

\* popitem(last=False): a KeyError if others have emptied the cache since.
Evict(t) ==
  /\ IF cache = <<>>
     THEN At(t, "evict", "idle") /\ UNCHANGED cache
     ELSE At(t, "evict", "storage") /\ cache' = Tail(cache)
  /\ SameStorage /\ SameLoops /\ UNCHANGED <<madeWith, held, rate, calls>>

\* _get_storage: whoever finds none takes the one from the settings, or makes
\* one; what it returns is looked up again.
GetStorage(t) ==
  /\ IF storage = 0
     THEN At(t, "storage", "make") /\ UNCHANGED held
     ELSE At(t, "storage", "insert") /\ held' = [held EXCEPT ![t] = storage]
  /\ SameStorage /\ SameLoops /\ UNCHANGED <<cache, madeWith, rate, calls>>

MakeStorage(t) ==
  /\ At(t, "make", "storage")
  /\ storages' = IF configured THEN 1 ELSE storages + 1
  /\ storage' = storages'
  /\ SameLoops /\ UNCHANGED <<cache, madeWith, held, tokens, rate, calls, served>>

Insert(t) ==
  /\ At(t, "insert", "fetch")
  /\ cache' = IF Contains(cache, rate[t]) THEN cache ELSE Append(cache, rate[t])
  /\ madeWith' = [madeWith EXCEPT ![rate[t]] = held[t]]
  /\ SameStorage /\ SameLoops /\ UNCHANGED <<held, rate, calls>>

LoopRuns == loop # NoLoop /\ loop \in running

\* run_async: without a running loop in the thread, asyncio.run; with one, the
\* call goes to the background loop, if that runs.
Bridge(t) ==
  /\ \/ At(t, "bridge", "acquire") /\ UNCHANGED mine
     \/ ~LoopRuns /\ At(t, "bridge", "lock") /\ UNCHANGED mine
     \/ LoopRuns /\ At(t, "bridge", "wait") /\ mine' = [mine EXCEPT ![t] = loop]
  /\ SameStorage
  /\ UNCHANGED <<cache, madeWith, held, rate, calls, loop, running, loops>>

\* _ensure_background_loop, under the lock: looked at again, and made anew.
\* Its thread is started, and will run it.
EnsureLoop(t) ==
  /\ At(t, "lock", "wait")
  /\ IF LoopRuns
     THEN mine' = [mine EXCEPT ![t] = loop] /\ UNCHANGED <<loop, loops>>
     ELSE /\ loops' = loops + 1
          /\ loop' = loops + 1
          /\ mine' = [mine EXCEPT ![t] = loops + 1]
  /\ SameStorage /\ UNCHANGED <<cache, madeWith, held, rate, calls, running>>

\* External: the thread of a loop comes up.
LoopStarts(l) ==
  /\ l \in 1..loops \ running
  /\ running' = running \union {l}
  /\ SameStorage
  /\ UNCHANGED <<cache, madeWith, held, tpc, rate, calls, loop, loops, mine>>

\* Mutant of Returned: what the thread waits for is in the global.
ReturnedByGlobal(t) == mine[t] = loop /\ loop \in running

\* future.result()
Returned(t) == mine[t] \in running

\* Mutant of Left: an empty bucket is taken for none.
LeftAfresh(s, limit) == IF tokens[s] \in {-1, 0} THEN limit ELSE Min({tokens[s], limit})

Left(s, limit) == IF tokens[s] = -1 THEN limit ELSE Min({tokens[s], limit})

\* acquire(): the bucket of the user in the algorithm's storage, whatever the
\* scope; a bucket holds no more than the rate at hand allows.
Acquire(t) ==
  LET s == held[t]
      left == Left(s, RateLimit[rate[t]])
  IN /\ At(t, "acquire", "idle") \/ (Returned(t) /\ At(t, "wait", "idle"))
     /\ tokens' = [tokens EXCEPT ![s] = IF left > 0 THEN left - 1 ELSE left]
     /\ served' = IF left > 0 THEN served + 1 ELSE served
     /\ SameLoops /\ UNCHANGED <<cache, madeWith, held, storage, storages, rate, calls>>

ThrottleStep(t) ==
  \/ Touch(t) \/ Fetch(t) \/ MakeRoom(t) \/ Evict(t)
  \/ GetStorage(t) \/ MakeStorage(t) \/ Insert(t)
  \/ Bridge(t) \/ EnsureLoop(t) \/ Acquire(t)

ThrottleNext ==
  \/ \E t \in Threads : ThrottleStep(t) \/ \E v \in Rates : Lookup(t, v)
  \/ \E l \in 1..MaxCalls : LoopStarts(l)

-----------------------------------------------------------------------------

(***************************************************************************)
(* A user gets no more out of all scopes together than the most generous   *)
(* of them allows, once for every storage the first threads made, or once  *)
(* where the settings have one; evicting an algorithm gives nothing back   *)
(* ("a wholesale reset would erase all live token buckets",                *)
(* throttle.py:83).                                                        *)
(***************************************************************************)
OneAllowance ==
  /\ storages <= IF configured THEN 1 ELSE Cardinality(Threads)
  /\ \E v \in Rates :
       /\ \A u \in Rates : RateLimit[u] <= RateLimit[v]
       /\ served <= storages * RateLimit[v]

(***************************************************************************)
(* The cache outgrows its bound by no more than the threads that found     *)
(* room at the same time, and a background loop that is not up yet has a   *)
(* thread that waits for it: a race for either costs no more than that.    *)
(***************************************************************************)
RacesAreBounded ==
  /\ Len(cache) < MaxAlgorithms + Cardinality(Threads)
  /\ \A l \in 1..loops \ running : \E t \in Threads : tpc[t] = "wait" /\ mine[t] = l

(***************************************************************************)
(* Every call returns, also one handed to a loop that was replaced before  *)
(* it ran: loops are started by whoever makes them and never stopped.      *)
(***************************************************************************)
CallsReturn == \A t \in Threads : tpc[t] # "idle" ~> tpc[t] = "idle"

=============================================================================
