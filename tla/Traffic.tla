------------------------------- MODULE Traffic -------------------------------
(***************************************************************************)
(* DDoSDetector (protection/ddos.py): the requests of each client are      *)
(* counted in buckets of time; once in a while the rates of all clients    *)
(* become a distribution, and a client whose rate is too many standard     *)
(* deviations above the others' is anomalous.                              *)
(*                                                                         *)
(* A rate is the number of requests in the window, and a bucket of time is *)
(* one tick.  Mean and deviation are compared exactly, by multiplying out: *)
(* what Welford's algorithm loses to rounding is left out, and so are the  *)
(* totals over all clients, which only statistics show.                    *)
(***************************************************************************)
EXTENDS Tables

CONSTANTS
  Channels,          \* http and websocket, which are counted apart
  TrafficWindow,     \* window
  ZThreshold,        \* z_threshold
  RateFloor,         \* rate_floor, in requests per window
  MinClients,        \* min_clients
  MinSamples,        \* min_rate_samples
  MaxTrackedClients, \* max_clients
  RecomputeInterval, \* recompute_interval
  TrafficCleanup,    \* time between two cleanups, 10 seconds in the code
  MaxRequests        \* bound on the requests of all clients

ASSUME TrafficAssumption ==
  /\ IsFiniteSet(Keys)
  /\ ZThreshold \in Nat
  /\ RateFloor \in Nat
  /\ MinClients \in Nat
  /\ None \notin Int

VARIABLES
  buckets,       \* _client_buckets, _ws_client_buckets: time and count; a
                 \* client without an entry has none
  dist,          \* _http_dist, _ws_dist: count, sum and sum of squares
  lastRecompute, \* _last_recompute
  lastTidied,    \* _last_cleanup
  sampled,       \* history: the rates the distribution was made from
  made           \* history: the number of requests

trafficVars == <<buckets, dist, lastRecompute, lastTidied, sampled, made>>

TrafficInit ==
  /\ buckets = [ch \in Channels |-> [k \in Keys |-> <<>>]]
  /\ dist = [ch \in Channels |-> [count |-> 0, sum |-> 0, squares |-> 0]]
  /\ lastRecompute = 0
  /\ lastTidied = 0
  /\ sampled = [ch \in Channels |-> [k \in Keys |-> None]]
  /\ made = 0

\* the buckets from cutoff_bucket on
RecentBuckets(list) == Since(list, clock - TrafficWindow)

\* _compute_rate_from_buckets: too few samples are no rate.
Rate(list) ==
  LET recent == RecentBuckets(list) IN
  IF Len(recent) < MinSamples THEN None
  ELSE SumFunction([i \in DOMAIN recent |-> recent[i].count])

\* _recompute_http_distribution, _recompute_ws_distribution, of rates that
\* not every client has
Distribution(rates) ==
  LET known == {k \in Keys : rates[k] # None} IN
  [count   |-> Cardinality(known),
   sum     |-> SumFunctionOnSet(rates, known),
   squares |-> SumFunction([k \in known |-> rates[k] * rates[k]])]

\* Mutant of WithoutValue: the client stays among its peers.
WithItself(d, value) == d

\* stats_without: the distribution without one value, whether the value is
\* still the one that went into it or not
WithoutValue(d, value) ==
  [count |-> d.count - 1, sum |-> d.sum - value, squares |-> d.squares - value * value]

\* the larger of two squared deviations
Deviation(d) ==
  LET floor == RateFloor * d.count
      variance == d.count * d.squares - d.sum * d.sum
  IN IF variance > floor * floor THEN variance ELSE floor * floor

\* is_http_anomalous, is_ws_anomalous; all multiplied by the peers' count
AnomalousOn(ch, k) ==
  LET rate == Rate(buckets[ch][k])
      peers == WithoutValue(dist[ch], rate)
      excess == peers.count * rate - peers.sum
  IN /\ dist[ch].count >= 3
     /\ dist[ch].count >= MinClients
     /\ rate # None
     /\ peers.count >= MinClients
     /\ excess > 0
     /\ excess * excess > ZThreshold * ZThreshold * Deviation(peers)

\* is_anomalous
Anomalous(k) == \E ch \in Channels : AnomalousOn(ch, k)

\* The request is counted.
Counted(list) ==
  IF list # <<>> /\ list[Len(list)].at = clock
  THEN [list EXCEPT ![Len(list)].count = @ + 1]
  ELSE Append(list, [at |-> clock, count |-> 1])

TidyDue == clock - lastTidied >= TrafficCleanup

\* the choices of clients _maybe_cleanup drops from each full table
Outs ==
  IF ~TidyDue THEN {[c \in Channels |-> {}]}
  ELSE {out \in [Channels -> SUBSET Keys] :
          \A c \in Channels :
            out[c] \in Smallest([k \in Keys |-> Len(RecentBuckets(buckets[c][k]))], MaxTrackedClients)}

(***************************************************************************)
(* record(), record_ws(): cleanup of all tables if it is due - and with it *)
(* the clients with the fewest buckets, where there are too many -, then   *)
(* recomputation of both distributions if that is due, and then the count. *)
(***************************************************************************)
Record(ch, k) ==
  /\ made < MaxRequests
  /\ made' = made + 1
  /\ \E out \in Outs :
       LET kept == IF ~TidyDue THEN buckets
                   ELSE [c \in Channels |-> [l \in Keys |->
                          IF l \in out[c] THEN <<>> ELSE RecentBuckets(buckets[c][l])]]
           rates == [c \in Channels |-> [l \in Keys |-> Rate(kept[c][l])]]
       IN /\ buckets' = [kept EXCEPT ![ch][k] = Counted(@)]
          /\ IF clock - lastRecompute < RecomputeInterval
             THEN UNCHANGED <<dist, lastRecompute, sampled>>
             ELSE /\ dist' = [c \in Channels |-> Distribution(rates[c])]
                  /\ lastRecompute' = clock
                  /\ sampled' = rates
  /\ lastTidied' = IF TidyDue THEN clock ELSE lastTidied

TrafficNext == \E ch \in Channels, k \in Keys : Record(ch, k)

-----------------------------------------------------------------------------

Square(x) == x * x

(***************************************************************************)
(* A client is measured against its peers, and never against itself: one   *)
(* whose rate is what it was when the distribution was made is anomalous   *)
(* just if there are enough others and its rate is as far above them as is *)
(* said, the deviation among them being half the sum of their squared      *)
(* differences.  "Excluding the client under test removes that bias"       *)
(* (ddos.py:60).  And one whose rate has changed since is not anomalous as *)
(* long as it is not above the average of the distribution, stale as that  *)
(* may be.                                                                 *)
(***************************************************************************)
PeersDecide ==
  \A ch \in Channels, k \in Keys :
    LET rate == Rate(buckets[ch][k])
        known == {l \in Keys : sampled[ch][l] # None}
        peers == known \ {k}
        n == Cardinality(peers)
        excess == SumFunction([l \in peers |-> rate - sampled[ch][l]])
        twiceSpread == SumFunction(
          [p \in peers \X peers |-> Square(sampled[ch][p[1]] - sampled[ch][p[2]])])
        floor == Square(RateFloor * n)
    IN IF rate # None /\ rate = sampled[ch][k]
       THEN AnomalousOn(ch, k) <=>
              /\ n >= 2 /\ n >= MinClients /\ excess > 0
              /\ 2 * Square(excess) > Square(ZThreshold)
                   * (IF twiceSpread > 2 * floor THEN twiceSpread ELSE 2 * floor)
       ELSE AnomalousOn(ch, k) =>
              Cardinality(known) * rate > SumFunctionOnSet(sampled[ch], known)

=============================================================================
