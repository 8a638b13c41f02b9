# Verification of drogue

TLA+ models of [drogue](../src/README.md), a rate limiting and abuse protection
library for Python web frameworks, the TLC configurations that check them on
small instances, and TLAPS proofs of what matters most for every instance.
Paths such as `core/storage/memory.py` are relative to `src/src/drogue/`.

Run a check with `tlc -config TokenBucket.cfg MCTokenBucket.tla`, a proof with
`tlapm TokenBucketProofs.tla`.

## 1. The system

A request enters through a framework adapter (`adapters/`).  The adapter turns
it into a key (`core/identity`), asks the protection pipeline
(`protection/pipeline.py`) and then, for every rule, an algorithm
(`core/algorithms`), which keeps its state in a storage (`core/storage`) shared
by any number of coroutines, threads, processes and hosts.  When the response
is known, the adapter reports it back to the pipeline.

| Component | State it keeps | Operations | What makes it correct |
|---|---|---|---|
| Token bucket, leaky bucket, GCRA | one storage entry per key: (tokens, last refill), (water, last leak), or an arrival time; time to live of one window | `acquire`, `peek`, `reset` | concurrent callers together never get more than burst and rate; expiry forgets nothing that matters; `retry_after` is true; a call fails closed only under contention |
| Fixed window | one counter per key and window, time to live of two windows | same | no window is overcharged; two windows' worth at an edge; waiting pays; no denial without a cause |
| Sliding window | the same counters, two of them read per call | same | the weighted estimate holds for what was really charged |
| Memory storage | dictionary of values with expiry, a count of writes since the last sweep | `incr`, `get`, `set`, `delete`, `expire`, `exists`, `ttl`, `increment_by`, `compare_and_swap`, `len`, `close` | lazy deletion is invisible; nothing is lost before its time |
| Redis, Mongo storage | the same in a server, expiry by the server | same | the same contract, but for named exceptions |
| Circuit breaker | state, failure count, probe slots, recovery deadline | `allow_request`, `record_success`, `record_failure`, `state`, `reset` | bounded probes; rest before probing; honest counts; recovery |
| Progressive bans | violation times or a counter, a ban with a level per key | `record_violation`, `is_banned`, `clear_ban`, their shared-storage variants | a ban lasts its time, only escalates, and comes after enough violations |
| Trust | level, expiry and LRU order per fingerprint | `check`, `update`, `poison`, `ban` | a poisoned client is not trusted; memory is bounded. The ban that `ban` enters here is no more than a verdict: `poison` and `update` drop or overwrite it, and nothing reads it as a ban (`is_banned` has no callers) |
| Pipeline | success streak per key | `check`, `record_*` | order of the checks; violations end trust |
| Challenge manager, Turnstile | token claims, failure and request counters in the storage, signed cookies | `allow_verify_request`, `claim_token`, `release_token`, `verify`, `record_failure` | a token counts once; attempts are bounded; failures lead to a ban |
| Probe detector | events and marks per client | `record`, `is_probing`, `clear_client`, `clear_all` | tidying up changes no verdict |
| DDoS detector | buckets of time per client, a distribution of rates | `record`, `record_ws`, `is_anomalous` | a client is measured against the others |
| Sentinel | a reference window, a forest, the last scores | `analyze` | nothing blinds the percentile |
| Randomized defence | parameters per session | `get_session_params`, `clear_session`, `clear_all` | only time and a crowd reshuffle |
| Probabilistic structures | cells, bits, fingerprints, registers | `add`, `check`, `remove`, `merge` | nothing that was added is forgotten |
| Limiters (FastAPI, Flask, Django) | an algorithm per rule and effective limit | middleware, decorators | limits add up; failure modes are honoured |
| DRF throttles, sync bridge | a cache of algorithms, a storage, a background loop, all made on first use | `allow_request`, `run_async` | races cost no more than they must; every call returns |
| The rest: identity, CIDR, rules, configuration, headers, errors, observability, adaptive limits | none that others rely on | pure functions, counters | unit tests reach it |

How they interact: algorithms, ban manager and challenge manager call the
storage, one `await` per call, and everything may happen in between; the
pipeline calls ban, probes, DDoS, sentinel and circuit in this order; the
adapters call back into pipeline (and through it circuit, trust, bans) when a
response starts or fails.  Synchronous code reaches coroutines through
`utils/async_utils.run_async`.

What is hard here: read - decide - swap loops that interleave across hosts;
clock samples that are old when they are used; expiry while a call is under
way, of an entry, of a claim, of a ban; acknowledgements that are lost; a
provider that takes its time; cancellation between two awaits; retries that
run out; outcomes reported late, twice or never; state changes by lazy
clean-up; tables at their limit; first use raced for by threads.
`PROJECT.json` lists the hazards one by one, at their lines.

## 2. The modules

| Module | Models | State and actions |
|---|---|---|
| `TokenBucket` | `core/algorithms/token_bucket.py` | `bucket` is the storage entry, `pc`, `now`, `seen`, `attempt`, `wait` the frames of the calls. `Start` samples the clock, `ReadState` is `storage.get` and the decision, `Swap`/`SwapRefused` the two outcomes of `compare_and_swap`, `StorageFails` an exception before or after the write, `Reset` is `reset()`, `Tick` lets time pass and entries expire |
| `GCRA` | `core/algorithms/gcra.py` | the same actions on an arrival time |
| `LeakyBucket` | `core/algorithms/leaky_bucket.py` | the same actions on a water level; INSTANCEs `TokenBucket` upside down |
| `RateContract` | what the bucket algorithms promise | the `debt` of a key and the cost `granted` in all; atomic `Grant`, `Tick`, `Forgive` |
| `FixedWindow` | `core/algorithms/fixed_window.py` | `store[w]` is the counter of window `w`; `ReadCount` samples the clock in every attempt and goes for the swap, waits or denies |
| `SlidingWindow` | `core/algorithms/sliding_window.py` | `ReadPrevious`, `ReadCurrent`, `Swap`; `WakeUp` after a sleep; `Reset` in its two deletions |
| `MemoryStorage` | `core/storage/memory.py` | `store` is the dictionary, `writes` the count towards the next sweep; one action per operation, as each holds the lock |
| `ServerStorage` | `core/storage/redis.py`, `core/storage/mongo.py`; EXTENDS `MemoryStorage` | `backend` says which of the three it is; `Redis*` and `Mongo*` are the commands and scripts, `Reap` is the server removing what is expired, which in Mongo comes late |
| `StorageContract` | the `Storage` interface, `core/abstracts.py` | a map whose entries vanish on time, and what each call returns, together with what it was asked; `grace` is the unit of time it reckons in, a second for Redis |
| `Ban`, `Trust` | `protection/ban.py` in memory, `protection/trust.py`; `KeysAndTime` is what they share | `bans` and `violations` are the dictionaries, `states` and `recency` the cache and its access order; one action per operation, as none suspends or each holds the lock. `offences` is the history of violations in the window |
| `Protection` | `protection/pipeline.py` on bans and trust, driven by `adapters/fastapi/limiter.py` and `challenge/manager.py:218-231`; EXTENDS `Ban` and `Trust` | `task` is what each overlapping request waits for (a rule, the application), `streak` and `tracked` are the success streaks and their insertion order. A request is turned away (`HitHoneypot`, `TurnAway`) or `Admit`ted, then its rules `Grant` or `Deny` it or deny it in shadow mode, and it ends as a success, a failed challenge or unreported |
| `CircuitBreaker` | `protection/circuit.py`, with `protection/pipeline.py:203-214` and the reports of `adapters/fastapi/limiter.py:573-595` | one action per operation; a request is `Allow`ed and later `Finish`es in one of four ways |
| `SharedBan` | `protection/ban.py` with a storage; EXTENDS `Ban` | `counter` and `record` are the entries on the storage, `pc` and `job` the calls between two commands. `CountViolation` or `CheckBan`, then `LookAtRecord`, `DropRecord`, `SetRecord`; `ClearRecord`, `ClearCounter` |
| `Challenge` | `challenge/manager.py`, `challenge/providers/turnstile.py` and the verify endpoint; EXTENDS `SharedBan` | `claims`, `failures`, `requests` are entries on the storage, `passes` the cookies. `Submit`, `ClaimToken`, the provider's `Respond`, then `ReleaseToken` or `RecordFailure`; `Cancel` at any `await` |
| `Limiter` | the three adapters: `adapters/fastapi/limiter.py`, `adapters/flask/limiter.py`, `adapters/django/limiter.py` | `adapter` says which; `at` is the check a request has got to, `spent` what buckets have given out. `Arrive`, `TurnAway`, `Check`, `FailCheck`, `Handle` |
| `Throttle` | `adapters/django/throttle.py`, `utils/async_utils.py` | `cache`, `storage`, `loop` are the globals of the two files; each line that touches one is a step of a thread: `Lookup`, `Touch`, `Fetch` or `MakeRoom`, `Evict`, `GetStorage`, `MakeStorage`, `Insert`, then `Bridge`, `EnsureLoop`, `Acquire`; `configured` says whether the settings have a storage |
| `Adapters` | the host of either | EXTENDS `Limiter` and `Throttle`; adds the fairness |
| `Probes`, `Traffic` | `protection/probes.py`, `protection/ddos.py`; `Tables` is the eviction they share | the tables of events and of buckets of time; a request is recorded, with whatever cleanup, eviction and recomputation are due |
| `Sentinel` | `protection/sentinel.py` | `analyze()` as one step; the scores that random trees give are a choice |
| `Sessions` | `defense/randomizer.py` | the table of sessions in the order of their insertion |
| `Sketches` | `storage/probabilistic.py` | the cells, bits, buckets and registers; `AddMember`, then each displacement of the cuckoo filter's `add` is a step, `Kick` or `GiveUp`, and its lock lets nothing else happen to the filter meanwhile |
| `Detectors` | the five above under one clock | a behaviour is of one of them, as they share nothing |

`MC*` modules give the constants values.  `*Proofs` modules hold the theorems:
one for each algorithm, `InfrastructureProofs` for the storages, the circuit
breaker and the adapters, `ProtectionProofs` for the pipeline, bans, trust,
challenges and the detectors.  `Sums` holds lemmas about sums over finite sets, which they share.
Each algorithm module contains the part of the storage it talks to (`Live`,
`Matches` and the time to live of its entries), so that its calls interleave
with expiry; the three storages are shown to be such a storage by the
refinement of `StorageContract`.  `SharedBan` and `Challenge` take an entry of
the storage for a value with an expiry, and have `refreshing` for the one
thing in which the storages differ towards them (but for Mongo, whose counters
do not answer them, section 5).  Their calls may break off, cancelled or left
without the storage, between any two commands (`Abandon`, `Cancel`).

Abstractions, in all of them:

- In the algorithms, a key is one bucket and keys do not interact, so one key
  is modelled.
- Time is in ticks, and amounts are in ticks, too: a token is `EI` ticks of
  refill.  The arithmetic of the code is exact in these units; rounding errors
  of floats are out of scope.
- `remaining`, `reset_at`, headers and log lines are left out; `retry_after` is
  the variable `wait`.
- In `Protection`, a client is one key everywhere (the key function of the
  limiter, also for routes and for challenges), every rule asks for trust
  before it acquires, and a request's success is reported once.  The detectors
  (probes, DDoS, sentinel, circuit) may turn away any request.
- In `Limiter`, a bucket gives out so many units in a window and no more, and
  each request costs one unit, and all requests fall into one window: what the
  algorithms make of windows is in their modules.  Requests are those of one client.
- In `Sketches`, hashes are constants, and a bucket's number is the set of its
  bits: exclusive or is the symmetric difference, and taking a hash modulo the
  number of buckets, a power of two, the intersection with the bits there are.
  In `Sentinel`, a forest is known by what its depths may be.
- Stored values are always what the program itself wrote; the branches for
  corrupt values are left out.
- A clock sample is the storage's time minus at most `MaxAge`.  That stands for
  both causes of old samples: the call was held up (an `await`, the sleep of a
  retry, a thread without the processor), and, for `Lag`, the monotonic clock
  of the caller's host is behind another's.  `time.monotonic()` is not
  comparable between hosts, so `MaxAge` is an assumption about the deployment:
  the results say what it costs.
- Variables marked "history" are not in the code.  They record what happened
  (what was charged, when, how often others changed the entry) and never enter
  a guard, with the exception of `resets` and `offences`, which only bound the
  resets and the violations.
- The blocking loop of the bucket algorithms (`_acquire_blocking`) repeats
  complete calls with a new sample each; as a caller of the modules starts new
  calls at will, its repetitions are behaviours of the module.  How it decides
  to go on waiting is not modelled.

## 3. What is checked

| Run | Instance | What it shows |
|---|---|---|
| `TokenBucket` | 2 callers, samples 1 tick old, limit 2, 2 ticks per token, costs 1 and 3 (more than the bucket holds), 3 attempts, clock to 5, 1 reset | `AdmissionBound`, `RetryAfterHonest`, `ExpiryForgetsNothing`, and the refinement of `RateContract` |
| `GCRA` | the same, clock to 6 | `AdmissionBound`, tighter here, as only creations are affected by old samples, and the refinement of the same contract |
| `LeakyBucket` | as for `TokenBucket`, but the second caller's clock is 1 tick behind | every step is the step of that name of `TokenBucket` |
| `FixedWindow` | 2 callers, limit 2, windows of 2 ticks, clock to 4 (two windows and the start of a third), samples 1 tick old, 2 attempts, waits of 3 ticks or none, 1 reset | `PerWindowBound`, `SpanBound`, `WaitingAWindowHelps` |
| `SlidingWindow` | 2 callers, limit 3, windows of 3 ticks, costs 1 and 2, clock to 4, samples 1 tick old, 2 attempts, 1 reset | `WeightedBound`, `BurstBound`, `DenialsAreDeserved` |
| `Storage` | each of the three storages; 2 keys, counters to 2, 3 ticks to a second, times to live of two thirds of a second and a second, a sweep every 2 writes, clock to 5 | `KeptForItsTime` and the refinement of `StorageContract` |
| `CircuitBreaker` | 3 overlapping requests with any of five outcomes, threshold 3, 2 probes, timeouts 2 and 3 | two safety properties, and two of liveness |
| `Protection` | 2 clients, 2 overlapping requests, ban levels of 1 tick and without end, threshold 1, window 1, 3 violations within a window, verdicts of 1 tick, room for 1 verdict and 1 streak, 2 successes for trust, clock to 1 | `BanIsKept`, `BansAreEarned`, `OffendersAreBanned`, `TrustIsEarned`, `EvictionWorks` |
| `Challenge` | 1 client, 2 overlapping attempts with 1 token, or 2 overlapping calls of the ban manager; ban levels of 1 and 2 ticks, threshold 1, claims, windows and counters of 2 ticks, limits of 2, counters that refresh and counters that do not, clock to 3 | `TokenCountsOnce`, `AttemptsBounded`, `CounterErrsOneWay`, `OnlyARaceWeakens`, `TheThresholdBans` |
| `Adapters` | 3 overlapping requests, a global limit of 3, decorators of 3 and 2, in FastAPI applied with half of it or half as much again, each of the three frameworks, failure modes and shadow mode; or 2 threads, a storage made or configured, 3 rates, a cache of 1, 3 calls | `AdmittedWithinLimits`, `FailureModeIsHonoured`, `OneAllowance`, `RacesAreBounded`, and the liveness property `CallsReturn` |
| `Detectors` | probes and DDoS: 3 clients, 2 paths, tables of 1 and 2 clients, clock to 3; sentinel: 2 samples, windows of 2 samples and 4 scores; sessions: a table of 2; sketches: 4 items that collide, 2 kicks, 5 additions | `MarksFollowScans`, `PeersDecide`, `TailIsFlagged`, `OnlyACrowdReshuffles`, `NothingIsForgotten` |
| `ChallengeBans` | as `Challenge` | expects a violation of `BruteForcersAreBanned`; see section 5 |

Each property is also run against a *mutant*: the definition with a plausible
bug in it (a dropped guard, a time to live too short, a count that is not
reset), next to the definition it replaces and marked "Mutant of".  TLC finds
the property violated by its mutant, so that none of them holds vacuously.

Why these bounds: two callers are enough for a lost update, and a third adds no
kind of overtaking that one caller that calls again does not; the attempts are
those of the code, or two where a second adds none; the clock runs long enough
for an entry to expire and be created anew (buckets) and to see two boundaries
(fixed window) or one boundary and the window after it (sliding window).  In
`Protection` a tick ends the window, a ban of the first level and a verdict, so
that one tick shows everything over and everything new, and two clients compete
for caches of one entry.  Three violations reach the second, last level; that
more of them do not leave it is part of the proof (`LevelInRange`).

In `Challenge`, three ticks let a claim of two expire, another be made and
that one run out of order; the two overlapping calls share one key, since keys
do not interact.  Bans on the storage and challenges share no state but the
client, and the constraint `OneAtATime` keeps a client with one of them: the
product of the two would add states and no behaviour.  In `Adapters` three
requests are one more than the inner decorator allows and just fill the other
limits (in FastAPI 1, 3 and 4, of which 1 is common to all rules); three
calls of two threads let one thread evict what another is about to touch, with
a third rate to find the cache full of.  In `Detectors` the tables hold one
or two clients fewer than there are, and each kind of event is due (cleanup,
recomputation, expiry) within the clock; `OneSocket` keeps the websocket
channel to a single request, as the channels only share the clock and the
cleanup.  The hashes are chosen so that every kind of collision occurs: in one
row of two, in both buckets of the cuckoo filter, in a register.

In `Storage` 3 ticks make a second in which a time to live is rounded by one
tick, by a whole second, or said to be left a tick more or less; 5 ticks let an
entry be created, run out, linger and be created again.  `Storage` and
`Protection` have a VIEW that leaves out what no action reads, the last answer
and the keys just pardoned.  The properties that read them do so in the state
a step leads to, and TLC checks every step it generates, so that nothing is lost
but steps from a state to one with the same answer, which stutter for one
answer and do not for another; the proofs have those, too.

The proofs cover what the bounds leave open.  Deadlock checking is off in the
models whose clock or whose calls are bounded: they stop when the bound is
reached and nobody starts; it is on for the circuit breaker, where that is
not so.

Fairness.  `CircuitBreaker`: time passes, a request that was let through ends
at some point (web servers time requests out), and clients keep asking as long
as the circuit would let one of them through.  Nobody is assumed to poll the
state or to reset the circuit.  `RecoveryIsTried` and `ReportedProbesDecide`
hold under it.  `Adapters`: a thread that can go on goes on, and the thread of
a background loop that was started comes up; both are the scheduling of the
operating system.  Nobody is assumed to call.  `CallsReturn` holds under it.
The algorithms promise no liveness: their loops are bounded by attempts, and
what a caller gets by waiting is stated as a safety property.

## 4. What is proved

TLAPS checks the following for every value of the constants that satisfies the
assumptions of the module: any set of callers, any limit, rate, window and
costs, any number of attempts and resets, any bound on the clock.  `MaxAge` is
any number of ticks in the bucket modules, and at most a window in the window
modules (a caller may be late by a window, not more; a counter lives for two).

**Buckets** (`TokenBucketProofs`, `GCRAProofs`).  The invariant `IInv` adds to
the types that no stored time is later than the clock, nor earlier than the
entry's expiry allows; that what a caller read is still enough for its cost if
the entry has not changed; and, the heart of it, an *account*: what was granted
is covered by the capacity, the time since the last reset, the slack of old
samples and what the entry still owes.  `Matches` makes the entry a caller
swaps equal to the one it read, so the account can be continued from it.  From
it follow `AdmissionIsBounded`, `ExpiryIsHarmless` and `TypeCorrect`.  A second
invariant, `CallInv`, relates each call to the history of the entry since the
call started (`overtaken`) and gives `FailsClosedOnlyUnderContention` and
`DenialsAreHonest`.  `ProtocolImplementsContract` shows each step to be a step
of `RateContract` or a stutter; a swap forgives at most the age of its sample.
`RateIsKeptWithExactClocks` is the documented promise, under the assumption
that samples are never old (`MaxAge = 0`).

**Leaky bucket** (`LeakyBucketProofs`).  `LeakyIsTokenUpended`: each action is
the action of that name of `TokenBucket` under the mapping `tokens = Window -
water`.  Its invariant is only the types.

**Windows** (`FixedWindowProofs`, `SlidingWindowProofs`).  The invariant says
that a counter outlives every caller that may still go for it, that a counter
that is open to such callers counts exactly what was charged, and that a caller
about to swap has room for its cost.  From it, `NoWindowIsOvercharged` and, in
both modules, `DenialsCountCharges`.  `EstimateStaysWithinLimit` needs in
addition what a caller of the current window knows of the previous one's
counter, and why that does not change unless the window is charged late.

`SpansAreBounded` and `BurstsAreBounded` compare sums.  In the fixed window,
what is granted in any span of time is no more than what the windows in reach
of the span were charged (`SpansCovered`), as a grant raises both sums by its
cost, and each window was charged at most the limit.  In the sliding window, as
long as nobody charged a window late, what a window granted was charged to it
(`GrantsAreCharged`), and what a window and the head of the next one granted
weighs no more than the limit, at whatever time the head ends
(`GrantsAreEstimated`); a span is made of a tail and a head.
`WaitingIsNeverInVain` needs that a window that was charged was so at a time
not before it begins; the window that turns away a call that waited begins
after the call came.

`Sums` proves what `MapThenSumSet` does from its definition: that the
recursive function it chooses exists, that it does not matter which element
comes first, and how the sum changes with one term.  In place of induction, of
which the provers have no rule, a set of counterexamples would have a smallest
member (`LeastOf`, from the library's `WFMin`).

**Circuit breaker** (`InfrastructureProofs`).  The invariant joins the two
counts, the slots and the rest of the deadline: an open circuit has rested for
at least the shortest timeout less what is left of its deadline.
`CountsAreHonest`, `DeadlineIsKept`, `TripsForAReason`.

**Storages** (`InfrastructureProofs`).  `EntriesAreKept`: what is written stays
until its time is over, whatever is swept or tidied up in between.
`StoragesImplementContract`: each operation of each of the three storages does,
and answers, what the operation of that name of `StorageContract` does and
answers, or is a stutter where it only removes what reads as absent already, or
one of the departures that `ServersImplementContract` names (section 5).  How
long an entry is kept is tied to the time to live that was asked for: `Kept`
adds nothing to it in memory and on Mongo, and at most a second on Redis, whose
`ttl()` may be half a second off (`About`).

**Adapters** (`InfrastructureProofs`).  `FailureModeIsAlwaysHonoured` is nearly
its own invariant.  `AdmissionsAreWithinLimits` needs to know of every request
what it has paid: each that is past a check has taken a unit of the check's
bucket, or the check failed (`PassingCosts`), and in Django it has done so once
for each repetition of the check (`RepeatingCosts`).  So the requests that got to
the view are no more than the units given out.

`AllowancesAreBounded` and `RacesAreAlwaysBounded` are one invariant,
`ThrottleInv`, about threads between any two lines of the throttle: there are
no more storages than threads, counting those about to make one; a thread that
has found room in the cache is counted before it uses it; every call that was
served is gone from the bucket of some storage; and whoever makes a loop waits
until it runs.

**Protection** (`ProtectionProofs`).  `BansAreAlwaysKept` needs that a ban's
end is no further off than its level's duration: then a ban of a higher level,
imposed now, ends no sooner, as durations do not fall with the level
(`EscalationAssumption`, the default `[0, 60, 600, 3600, 86400]` satisfies it).
Its only escape is a clearing by an administrator (`pardoned`, which requests and
time leave empty): what a look at a ban tidies up is not excused.
`BansAreAlwaysEarned` and `OffendersAreAlwaysBanned` need that the list of a
key's violations and the history agree from the latest on (`Agree`): what one
has and the other lacks is out of the window, unless the list is full, and then
it is long enough for any ban.
`TrustIsAlwaysEarned` needs that a streak never
exceeds the successes since the last violation the pipeline was told of.
`EvictionAlwaysWorks` says that the access order lists each entry that may be
evicted, and each once; none of the others assumes anything of it.

**Challenge** (`ProtectionProofs`).  `TokensCountOnce`, for any number of
attempts, clients and tokens, any times to live, and whatever the ban manager
does meanwhile.  The invariant `Orderly` says of each token that if it was
replayed, an attempt with it has outlived its claim; and as long as none has,
that whoever holds a claim that has not run out holds it alone, with the claim
it made still stored and any earlier success of the token over
(`OwnersAreAlone`), and that the claim of a success stays until it runs out
(`PassedIsClaimed`).  All steps that leave the attempts alone are one case
(`BystanderStep`).

`AttemptsAreBounded` and `CountersErrOneWay` relate a counter that ends at some
time to the times of what it counted.  A counter that is refreshed has all the
times of the last window (`CoversAll`); one that keeps its expiry has none but
the latest of them (`CountsTheLast`), and those it lacks, which an earlier
counter had, are no more than the limit and forgotten by its end
(`LeavesFew`).  `OnlyRacesWeaken` and `TheThresholdAlwaysBans` need that a call
about to write a record that nobody has written since it looked knows what it
does (`WritersKnow`): it deletes what is over, or writes a stronger ban.

**Detectors** (`ProtectionProofs`).  For any number of clients, paths, items
and sessions, and any size of the tables.

`MarksAlwaysFollowScans`: the invariant `ProbesInv` says that every list of
events is in order of time and no longer than it may be, and that for a client
that no full table has dropped, what the table has of the window is what the
client did (`LogsAreComplete`).  A client makes no more than `MaxEvents`
requests within a window (a guard of the model), so what a full list lets go is
too old to count; of a client that makes more, the code sees the last ones.  `PeersAlwaysDecide`: the distribution is that of
the rates it was sampled from (`TrafficInv`), and then it is algebra: what the
detector gets by leaving a client out is the distribution of the others
(`TotalsOfPeers`), and the differences of all pairs of them, squared, add up to
twice `n * squares - sum * sum` (`SumOfSpread`), which is the deviation the
detector goes by.  `TheTailIsAlwaysFlagged`: a zero among the scores was
measured (`SentinelInv`), and a percentile is a score such that no more than the
share above it exceed it (`AboveTheThreshold`).  `OnlyACrowdEverReshuffles`: the
table names a session once, whatever stands behind it is younger, and a session
that was shown something and is not in the table was pushed out by a crowd
(`SessionsInv`).

`NothingIsEverForgotten` is one invariant for each sketch.  A cell has counted
whatever falls into it (`CountsInv`); a register that was merged already is as
high as the items of both sketches demand (`HllInv`).  For the cuckoo filter,
single members cannot be followed, as equal fingerprints are interchangeable:
`PairsAreComplete` counts, for a pair of buckets and a fingerprint, the copies
in the pair, with the one in hand, and finds as many as there are members that
seek it there, as long as nothing was lost.  A kick leaves this number alone
for every pair, because the other bucket of a fingerprint's other bucket is the
first (`AlternateReturns`).

What the constants are assumed to be stands at their declaration, and TLC
evaluates it in every run.  Beyond types, these are: samples no older than a
window (window modules); escalation that does not fall; in the adapters, finite
sets of requests, threads and rates, and at least one rate; in the detectors,
finite sets of clients and items, at least one row and one register, room for
at least one event, depths above 0 where a tree splits, and a `target_fpr` of
one in two or less.

Some of what is proved is not run as well, as the runs are kept to the
questions that TLC answers best: `FailsClosedOnlyUnderContention`,
`RateIsKeptWithExactClocks`, `TripsForAReason`, the bound on the probes in
`CountsAreHonest`, the fixed window's `DenialsCountCharges`, and the types.

Every other property of a run that is expected to pass is stated by a theorem,
but for three.  Those are the liveness properties (`RecoveryIsTried`,
`ReportedProbesDecide`, `CallsReturn`), as TLAPS has no rules for fairness here:
they are only model-checked.

## 5. Where code and documents differ

One has a run of its own, `ChallengeBans`: failed challenges past the threshold
are reported with `record_violation()` (`challenge/manager.py:229`), which bans
in the memory of the ban manager; where that has a storage, the pipeline asks
`is_banned_async()` (`pipeline.py:278-283`), which looks on the storage and finds
nothing, against "a client brute-forcing challenges gets auto-banned"
(`docs/protection/challenges.md:73`).

Three more show in a run as soon as a property is stated without its exception:

- A call of `record_violation_async()` that found no ban may write its own after
  a later call has written one of a higher level, against "only escalate, never
  downgrade" (`ban.py:224`): the level it compares with is the one it read, two
  awaits before.  `OnlyARaceWeakens` excepts calls that were overtaken like that,
  and says that nothing else weakens a ban.
- A client whose ban in memory is over can reach the threshold again and stay
  free, because the new level is compared with that of the old entry, which only
  a ban check deletes (`ban.py:107`, against `docs/protection/ban.md:11`).
  Honeypot hits come before the ban check, and requests let through earlier may
  still be denied.  `OffendersAreBanned` excepts keys with such an entry; on a
  storage there is no exception (`TheThresholdBans`).
- Mongo's `increment_by()` and `ttl()` take a date without a time zone, which is
  what the driver returns by default, from one that has it, and raise
  (`mongo.py:146`, `164`, against `abstracts.py:122`); the increment has been made
  by then.  So neither bans (`ban.py:212`) nor challenges (`manager.py:222`, `244`)
  work on a Mongo storage whose URI does not say `tz_aware=true`; the algorithms,
  which use neither operation, do.  `tests/storage/test_mongo_cas.py` does not
  see it, as its mocks return dates with a time zone.  The refinement names it
  (`LosesTheAnswer`); `SharedBan` and `Challenge` are about storages that answer.

The others were seen in the models or while writing them.

Algorithms:

- "Tokens refill at `limit / window` tokens per second" (`token_bucket.py:20`)
  is exceeded when a swap writes back a clock sample older than the stored
  `last_refill`.  `AdmissionBound` says by how much: by the age of the sample,
  for each grant.  The leaky bucket has the same; GCRA does not, as
  `max(prev_tat, now)` never turns the stored time back.
- A late caller may still increment the counter of a sliding window that is
  over (`sliding_window.py:78` speaks of no race; hence the proviso of
  `WeightedBound`), and `BurstBound` says what is left of "eliminates the
  boundary burst" (`docs/concepts/algorithms.md:100`).
- `block=True` without a timeout does not wait (`fixed_window.py:88`,
  `sliding_window.py:109`, against `abstracts.py:50`).

Storages (the departures of `ServersImplementContract`):

- Redis refreshes the expiry of a counter with each increment, the others keep
  it (`RefreshesCounter`).  "Counting uses a sliding window" (`ban.py:208`)
  therefore only holds on Redis (`CounterErrsOneWay`), and there a counter under
  steady traffic never expires.
- Next to a document that is expired and not removed yet, Mongo's `incr` and
  `increment_by` raise `DuplicateKeyError`, and `compare_and_swap(None)` is
  refused although `get()` says there is none (`TripsOverLeftover`); a swap that
  changes nothing counts as refused (`SwapsForTheSame`).
- Mongo's `increment_by()` and `ttl()` raise, as above (`LosesTheAnswer`).
- `expire()` of memory and Mongo revives what is over and still there
  (`RevivesLeftover`), and the `ttl()` of memory says 0 for it, instead of -2
  (`SpeaksOfLeftover`).  Nothing in the package calls either.

Protection:

- A probe whose outcome is never reported (a 4xx response, a denial after the
  check, a client that goes away) leaves the circuit half-open for good
  (`circuit.py:96`, against `docs/protection/circuit.md:5`); hence the
  exception in `ReportedProbesDecide`.  A success that is not a probe's closes
  a half-open circuit (`circuit.py:104`, against
  `docs/protection/circuit.md:91-92`).
- A denial in shadow mode is recorded as a violation and leads to bans
  (`limiter.py:707`, against `docs/advanced/shadow.md:5`).
- A honeypot hit leaves trust and streak alone (`pipeline.py:139`, against
  `pipeline.py:51-52`), and a failed challenge the streak
  (`challenge/manager.py:228-231`): `TrustIsEarned` speaks of violations the
  pipeline was told of.
- A pipeline that the limiter makes from a configuration with `honeypot_ban` has
  no ban manager to ban with (`limiter.py:159`).

Challenges:

- A pass "unlocks the page" (`docs/protection/challenges.md:5`), but all it
  does is to turn the interstitial of a denied request into a bare 429, as
  `tests/adapters/test_fastapi_challenge.py:146` expects; in `Limiter` it is
  one of the two forms of `Deny`.
- A solved challenge calls `trust.update(key, 1.0)` (`manager.py:357`), where
  1.0 is the score of the most suspicious, not of the most trusted client
  (`trust.py:170`); such a verdict is not cached, so the call changes nothing.

Adapters:

- `fail_closed=False` never applies to rules of decorators: `parse_rule_string`
  makes all of them `fail_closed`.  A storage failure in a view surfaces as an
  error, in `dependency()`, in `limit_ws()`, in Flask and in Django, too.
- With stacked decorators, Django charges each rule once per decorator
  (`django/limiter.py:170`); the headers of a 429 from a rule of FastAPI's
  decorator may be those of an enclosing rule.
- The DRF throttle's key does not contain the scope, so that scopes share a
  bucket (`OneAllowance`).  Its cache is not locked: an algorithm that is
  evicted between two lines raises `KeyError`, and two threads may each make a
  storage on first use, and give a client an allowance in each.
- Where no loop runs, `run_async` makes a new one for each call
  (`asyncio.run`), while an asynchronous client of a server stays bound to the
  loop of its first use.

Detectors and sketches:

- An earlier harmless request further back than `max_time_span`, but within the
  window, hides a scan (`probes.py:234`); `max_clients` holds only just after a
  cleanup.
- The DDoS detector has no rate for a client whose requests fall into fewer
  buckets of time than `min_rate_samples`, however many they are.
- The sentinel's threshold stays at 0 while the window of scores is full of
  those of a forest of leaves, made from identical samples, and with fewer
  scores than `1 / target_fpr` it is their maximum (`TailIsFlagged` says both).
- A cuckoo filter's `add` that fails has lost another item's fingerprint, which
  it does not say; and its kicks never leave the first bucket, since
  `victim_idx` is always `idx` (`probabilistic.py:263`).
- Removing a network from the CIDR filter answers `True` when it was not there,
  and removing the last allowed one admits everybody.

## 6. Not modelled

Because there is nothing a model checker would add: identity extraction, CIDR
lookup, the parsing of rules and of configuration, headers, errors,
observability (pure functions or write-only counters); the page, cookie and
redirect of a challenge; the lists of hits that `HoneypotManager` keeps and
nothing reads; statistics everywhere.

Because it is a matter of numbers and not of states: adaptive limits (their
effect, a changing limit, is `EffectiveLimits` of `Limiter`), the features and
trees of the sentinel, HyperLogLog's estimate, error rates of the sketches,
rounding of floats.

Left out although it has states: FastAPI's `dependency()` and `limit_ws()`,
which are a decorator's check without its failure mode; the blocking loops of
the bucket algorithms, and blocking rules in the adapters; rules with a cost or
a shadow mode of their own, which `parse_rule_string` never makes; corrupt entries on
the storage; the connections to Redis and Mongo.

What a next step would be: `dependency()` and `limit_ws()` as variants of a
check in `Limiter`, and a blocking call as a process of its own, which would
show how long it goes on waiting behind others.
