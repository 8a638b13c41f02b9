------------------------------- MODULE Trust -------------------------------
(***************************************************************************)
(* TrustManager (protection/trust.py): a bounded cache of verdicts about   *)
(* keys, least recently used first to go.  Each method holds the lock.     *)
(* Nothing in the package hands in a score for "standard".                 *)
(***************************************************************************)
EXTENDS KeysAndTime, Sequences, FiniteSets

CONSTANTS
  MaxFingerprints,  \* capacity of the cache
  TrustedTTL        \* how long "trusted" is believed

ASSUME TrustAssumption ==
  /\ MaxFingerprints \in Nat
  /\ TrustedTTL \in Nat
  /\ None \notin [level : {"trusted", "banned"},
                  expires : Int \union {Forever}]

VARIABLES
  states,  \* _states
  recency  \* _access_order, the least recently used key first

trustVars == <<states, recency>>

Verdicts == [level   : {"trusted", "banned"},
             expires : Nat \union {Forever}]

Cached(s) == {k \in Keys : s[k] # None}

TrustInit ==
  /\ states = [k \in Keys |-> None]
  /\ recency = <<>>

\* the keys of an ordered dictionary, each of them there once, without k
Without(s, k) ==
  LET at == CHOOSE i \in DOMAIN s : s[i] = k IN
  IF \E i \in DOMAIN s : s[i] = k
  THEN SubSeq(s, 1, at - 1) \o SubSeq(s, at + 1, Len(s))
  ELSE s

\* move_to_end, or a new entry at the end
Touched(k) == Append(Without(recency, k), k)

Stale(k) == states[k] # None /\ Over(states[k])

\* Mutant of Drop: the key stays in the access order.
DropState(k) ==
  /\ states' = [states EXCEPT ![k] = None]
  /\ UNCHANGED recency

Drop(k) ==
  /\ states' = [states EXCEPT ![k] = None]
  /\ recency' = Without(recency, k)

\* the verdict that check returns
LevelOf(k) ==
  IF states[k] = None \/ Stale(k) THEN "unknown" ELSE states[k].level

\* check, is_trusted, is_banned: a stale verdict goes, another was just used.
CheckTrust(k) ==
  \/ states[k] = None /\ UNCHANGED trustVars
  \/ Stale(k) /\ Drop(k)
  \/ /\ states[k] # None /\ ~Stale(k)
     /\ recency' = Touched(k)
     /\ UNCHANGED states

\* get_state does not count as use.
LookUpState(k) ==
  \/ Stale(k) /\ Drop(k)
  \/ ~Stale(k) /\ UNCHANGED trustVars

\* _evict_if_needed: how many keys are popped off the access order, until
\* what is left fits or nothing is left to pop
Evictions(s, order) ==
  CHOOSE n \in 0..Len(order) :
    LET Fits(m) ==
          Cardinality(Cached(s) \ {order[i] : i \in 1..m}) <= MaxFingerprints
    IN /\ Fits(n) \/ n = Len(order)
       /\ \A m \in 0..(n - 1) : ~Fits(m)

\* update with the score 0.0, which the pipeline hands in; the score 1.0 of a
\* passed challenge is answered with "suspicious" and changes nothing
UpdateTrusted(k) ==
  LET s == [states EXCEPT ![k] =
             [level |-> "trusted", expires |-> Deadline(TrustedTTL)]]
      n == Evictions(s, Touched(k))
      evicted == {Touched(k)[i] : i \in 1..n}
  IN /\ states' = [j \in Keys |-> IF j \in evicted THEN None ELSE s[j]]
     /\ recency' = SubSeq(Touched(k), n + 1, Len(Touched(k)))

Poison(k) == Drop(k)

\* ban: cached whatever the capacity, and not in the access order until it
\* is looked at
BanTrust(k) ==
  /\ states' = [states EXCEPT ![k] = [level |-> "banned", expires |-> Forever]]
  /\ UNCHANGED recency

ClearTrust ==
  /\ states' = [k \in Keys |-> None]
  /\ recency' = <<>>

TrustTypeOK ==
  /\ states \in [Keys -> Verdicts \union {None}]
  /\ recency \in Seq(Keys)

(***************************************************************************)
(* The cache keeps to its capacity, permanent bans aside, because every    *)
(* other entry is in the access order exactly once and can be evicted, and *)
(* no entry of the access order is idle.                                   *)
(***************************************************************************)
EvictionWorks ==
  LET evictable == {k \in Cached(states) : states[k].level # "banned"}
      listed == {recency[i] : i \in DOMAIN recency}
  IN /\ Cardinality(evictable) <= MaxFingerprints
     /\ evictable \subseteq listed
     /\ listed \subseteq Cached(states)
     /\ Cardinality(listed) = Len(recency)

=============================================================================
