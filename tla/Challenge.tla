----------------------------- MODULE Challenge -----------------------------
(***************************************************************************)
(* The challenge flow: the verify endpoint (adapters/fastapi/limiter.py),  *)
(* ChallengeManager (challenge/manager.py) with what Turnstile makes of an *)
(* answer (challenge/providers/turnstile.py), and a ban manager that keeps *)
(* its bans on the same storage (SharedBan).  An attempt claims its token, *)
(* waits for the provider and then releases the token, counts a failure or *)
(* hands out a pass; attempts overlap, claims run out, and an attempt may  *)
(* be cancelled wherever it waits.                                         *)
(*                                                                         *)
(* What an escalated failure does to trust is an action of Protection.     *)
(***************************************************************************)
EXTENDS SharedBan

CONSTANTS
  Tokens,           \* tokens of the provider
  NoToken,          \* an empty form field
  NoAnswer,         \* the provider cannot be reached, or not understood
  TooLong,          \* the token is too long to be worth asking
  TokenTTL,         \* token_ttl
  CookieTTL,        \* cookie_ttl
  FailureThreshold, \* failure_threshold
  FailureWindow,    \* failure_window
  RequestLimit,     \* challenge_rate_limit
  RequestWindow     \* challenge_rate_window

ASSUME ChallengeAssumption ==
  /\ NoToken \notin Tokens
  /\ TokenTTL \in Nat \ {0} /\ CookieTTL \in Nat \ {0}
  /\ FailureThreshold \in Nat \ {0} /\ FailureWindow \in Nat
  /\ RequestLimit \in Nat \ {0} /\ RequestWindow \in Nat
  /\ MaxClock \in Nat /\ MaxCount \in Nat
  /\ None \notin Int
  /\ None \notin [value : Int, expires : Int]
  /\ None \notin [level : Int, expires : Int \union {Forever}, kept : Int \union {Forever}]

VARIABLES
  claims,   \* until when each token is claimed
  failures, \* the failure counter of each client
  requests, \* the request counter of each client
  passes,   \* until when the pass cookie of each client is good, that second
            \* included
  lastUse,  \* history: the end of the claim under which a token last passed
  replayed, \* history: a token passed twice within one token_ttl
  outlived, \* history: an attempt with the token outlived its claim
  admitted  \* history: the attempts let in within the request window

challengeVars ==
  <<claims, failures, requests, passes, lastUse, replayed, outlived, admitted>>

ChallengeInit ==
  /\ clock = 0
  /\ BanInit
  /\ SharedBanInit
  /\ claims = [t \in Tokens |-> None]
  /\ failures = [k \in Keys |-> None]
  /\ requests = [k \in Keys |-> None]
  /\ passes = [k \in Keys |-> None]
  /\ lastUse = [t \in Tokens |-> None]
  /\ replayed = [t \in Tokens |-> FALSE]
  /\ outlived = [t \in Tokens |-> FALSE]
  /\ admitted = [k \in Keys |-> <<>>]

\* what Siteverify answers: whether the token is good, the error codes, and
\* whether hostname and action are the expected ones
Answers ==
  [success : BOOLEAN, codes : SUBSET {"secret", "duplicate", "other"}, expected : BOOLEAN]

\* TurnstileProvider.verify: what is not the visitor's doing is no failure.
Verdict(a) ==
  CASE a = TooLong -> "rejected"
    [] a = NoAnswer -> "unavailable"
    [] a \in Answers /\ a.success -> IF a.expected THEN "passed" ELSE "rejected"
    [] a \in Answers /\ ~a.success ->
         IF a.codes = {} \/ "secret" \in a.codes THEN "unavailable"
         ELSE IF "duplicate" \in a.codes THEN "expired" ELSE "rejected"

\* has_valid_pass, of whoever shows it
HasValidPass(k) == passes[k] # None

-----------------------------------------------------------------------------

\* Mutant of MayAttempt: one more than the limit.
MayAttemptOneMore(c) == c.value <= RequestLimit + 1

\* allow_verify_request
MayAttempt(c) == c.value <= RequestLimit

\* POST to the endpoint, up to the claim: the request is counted; too many of
\* them, a pass that is still good and a form without a token end it.
Submit(p, k, t, showsPass) ==
  LET c == Bumped(requests[k], RequestWindow) IN
  /\ pc[p] = "idle"
  /\ c.value <= MaxCount
  /\ requests' = [requests EXCEPT ![k] = c]
  /\ admitted' = [admitted EXCEPT ![k] = IF MayAttempt(c) THEN Append(@, clock) ELSE @]
  /\ IF MayAttempt(c) /\ ~(showsPass /\ HasValidPass(k)) /\ t # NoToken
     THEN Goto(p, "claim") /\ Remember(p, [key |-> k, token |-> t, until |-> 0])
     ELSE UNCHANGED <<pc, job>>
  /\ UNCHANGED <<clock, banVars, refreshing, counter, record, times,
                 claims, failures, passes, lastUse, replayed, outlived>>

\* Mutant of Claimable: an attempt in progress is no claim.
AlwaysClaimable(t) == TRUE

\* compare_and_swap(token, None)
Claimable(t) == claims[t] = None

\* claim_token: a token that is claimed is a replay.
ClaimToken(p) ==
  LET t == job[p].token IN
  /\ pc[p] = "claim"
  /\ IF Claimable(t)
     THEN /\ claims' = [claims EXCEPT ![t] = clock + TokenTTL]
          /\ job' = [job EXCEPT ![p].until = clock + TokenTTL]
          /\ Goto(p, "provider")
     ELSE Done(p) /\ UNCHANGED claims
  /\ UNCHANGED <<clock, banVars, refreshing, counter, record, times,
                 failures, requests, passes, lastUse, replayed, outlived, admitted>>

\* The claim of p is over, and p has not given the token back (history).
Outlives(p, t) == outlived' = [outlived EXCEPT ![t] = @ \/ clock >= job[p].until]

\* External: the provider answers in its own time.  Success needs nothing
\* else: the pass is handed out.
Respond(p, a) ==
  LET t == job[p].token IN
  /\ pc[p] = "provider"
  /\ Outlives(p, t)
  /\ IF Verdict(a) = "passed"
     THEN /\ passes' = [passes EXCEPT ![job[p].key] = clock + CookieTTL]
          /\ lastUse' = [lastUse EXCEPT ![t] = job[p].until]
          /\ replayed' = [replayed EXCEPT ![t] =
               @ \/ (lastUse[t] # None /\ job[p].until < lastUse[t] + TokenTTL)]
          /\ Done(p)
     ELSE /\ Goto(p, IF Verdict(a) = "unavailable" THEN "release" ELSE "failed")
          /\ UNCHANGED <<job, passes, lastUse, replayed>>
  /\ UNCHANGED <<clock, banVars, refreshing, counter, record, times,
                 claims, failures, requests, admitted>>

\* release_token: the claim that is there is deleted, whoever made it.  No
\* pass is handed out, in either failure mode.
ReleaseToken(p) ==
  /\ pc[p] = "release"
  /\ claims' = [claims EXCEPT ![job[p].token] = None]
  /\ Outlives(p, job[p].token)
  /\ Done(p)
  /\ UNCHANGED <<clock, banVars, refreshing, counter, record, times,
                 failures, requests, passes, lastUse, replayed, admitted>>

\* record_failure: the failure is counted on the storage.
RecordFailure(p) ==
  LET k == job[p].key
      c == Bumped(failures[k], FailureWindow)
  IN /\ pc[p] = "failed"
     /\ c.value <= MaxCount
     /\ failures' = [failures EXCEPT ![k] = c]
     /\ IF c.value >= FailureThreshold THEN Goto(p, "escalate") /\ UNCHANGED job ELSE Done(p)
     /\ UNCHANGED <<clock, banVars, refreshing, counter, record, times,
                    claims, requests, passes, lastUse, replayed, outlived, admitted>>

\* From the threshold on every failure is a violation - in the memory of the
\* ban manager.
Escalate(p) ==
  /\ pc[p] = "escalate"
  /\ RecordViolation(job[p].key)
  /\ Done(p)
  /\ UNCHANGED <<clock, refreshing, counter, record, times, challengeVars>>

\* The client goes away, or the storage fails, while the attempt waits: a
\* claim stays behind, a failure is not counted, or is and leads to nothing.
Cancel(p) ==
  /\ pc[p] \in {"claim", "provider", "release", "failed", "escalate"}
  /\ Done(p)
  /\ UNCHANGED <<clock, banVars, refreshing, counter, record, times, challengeVars>>

\* what is left at the next tick of a counter
Remaining(c) == IF c # None /\ c.expires <= clock' THEN None ELSE c

ChallengeTick ==
  /\ clock < MaxClock
  /\ clock' = clock + 1
  /\ BansAge
  /\ SharedBansAge
  /\ claims' = [t \in Tokens |->
       IF claims[t] # None /\ claims[t] <= clock' THEN None ELSE claims[t]]
  /\ failures' = [k \in Keys |-> Remaining(failures[k])]
  /\ requests' = [k \in Keys |-> Remaining(requests[k])]
  /\ admitted' = [k \in Keys |-> Within(admitted[k], RequestWindow, clock')]
  /\ passes' = [k \in Keys |->
       IF passes[k] # None /\ passes[k] < clock' THEN None ELSE passes[k]]
  /\ UNCHANGED <<lastUse, replayed, outlived>>

flowVars == <<clock, banVars, sharedBanVars, challengeVars>>

ChallengeNext ==
  \/ ChallengeTick
  \/ \E p \in Procs :
       \/ SharedBanStep(p) /\ UNCHANGED <<clock, banVars, challengeVars>>
       \/ ClaimToken(p) \/ ReleaseToken(p) \/ RecordFailure(p) \/ Escalate(p) \/ Cancel(p)
       \/ \E a \in Answers \union {NoAnswer, TooLong} : Respond(p, a)
       \/ \E k \in Keys, t \in Tokens \union {NoToken}, s \in BOOLEAN : Submit(p, k, t, s)

ChallengeSpec == ChallengeInit /\ [][ChallengeNext]_flowVars

-----------------------------------------------------------------------------

Jobs ==
  [key : Keys, level : 0..Top, raced : BOOLEAN]
    \union [key : Keys, token : Tokens, until : Nat]

\* Type invariant.
ChallengeTypeOK ==
  /\ clock \in 0..MaxClock
  /\ BanTypeOK
  /\ SharedBanTypeOK
  /\ \A p \in Procs : IF pc[p] \in {"idle", "raised"} THEN job[p] = None ELSE job[p] \in Jobs
  /\ claims \in [Tokens -> Nat \union {None}]
  /\ failures \in [Keys -> Counters \union {None}]
  /\ requests \in [Keys -> Counters \union {None}]
  /\ passes \in [Keys -> Nat \union {None}]
  /\ lastUse \in [Tokens -> Nat \union {None}]
  /\ replayed \in [Tokens -> BOOLEAN]
  /\ outlived \in [Tokens -> BOOLEAN]

(***************************************************************************)
(* A token counts once: whatever the provider says of it, it does not pass *)
(* twice within token_ttl - unless the provider once took longer over the  *)
(* token than its claim lasts, for then a second attempt claims it, and    *)
(* the first one's release deletes the second one's claim.                 *)
(***************************************************************************)
TokenCountsOnce == \A t \in Tokens : replayed[t] => outlived[t]

(***************************************************************************)
(* The endpoint is no way to flood the provider: within any span of the    *)
(* length of the request window a client is let in as often as the limit   *)
(* says, and twice as often where the storage keeps a counter's expiry.    *)
(***************************************************************************)
AttemptsBounded ==
  \A k \in Keys :
    Len(admitted[k]) <= IF refreshing THEN RequestLimit ELSE 2 * RequestLimit

(***************************************************************************)
(* A ban the ban manager has entered is one that is_banned_async sees:     *)
(* "repeated failed verifications [...] feed the existing AutoBanManager   *)
(* (record_violation) [...], so a client brute-forcing challenges gets     *)
(* auto-banned" (docs/protection/challenges.md:73).  Not so with bans on a *)
(* shared storage, which record_violation does not write.                  *)
(***************************************************************************)
BruteForcersAreBanned == \A k \in Keys : InForce(k) => Strength(k) > 0

=============================================================================
