------------------------------ MODULE Limiter ------------------------------
(***************************************************************************)
(* How the adapters (adapters/fastapi, flask, django) put rules to a       *)
(* request: the global rules in the middleware, then the rules of the      *)
(* decorators stacked on the view, each of them an acquire on a bucket of  *)
(* the storage, and only then the view.  Requests of one client overlap.   *)
(*                                                                         *)
(* A bucket is what an algorithm makes of one key within one window: so    *)
(* many units and no more.  Every request costs one unit, and no single    *)
(* rule is in shadow mode: a rule has another cost or a shadow of its own  *)
(* only if it was not made by parse_rule_string.  What the requests mean   *)
(* to the protection pipeline is in Protection and CircuitBreaker.         *)
(***************************************************************************)
EXTENDS Integers, Sequences, FiniteSets, FiniteSetsExt

CONSTANTS
  Requests,     \* requests of one client within one window
  GlobalLimits, \* the limits of the global rules
  RouteLimits,  \* the limits of the decorators, the outermost first
  Multipliers,  \* what load, trust and the session may make of a limit, all
                \* together: <<3, 2>> is half as much again
  MaxLimit      \* no limit is larger

ASSUME LimiterAssumption ==
  /\ IsFiniteSet(Requests)
  /\ MaxLimit \in Nat \ {0}
  /\ GlobalLimits \in Seq(1..MaxLimit)
  /\ RouteLimits \in Seq(1..MaxLimit)

ASSUME MultipliersAssumption == Multipliers \subseteq Nat \X (Nat \ {0})

VARIABLES
  adapter,    \* the framework; DRF has throttles instead (Throttle)
  failClosed, \* config.default_fail_closed
  shadowed,   \* config.shadow_enabled
  spent,      \* the units taken from each bucket
  at,         \* the check each request has got to; 0 before it arrives
  response,   \* what became of each request
  met,        \* history: where a request met a failing storage
  ran,        \* history: how many requests got to the view through all checks
  limitsUsed  \* history: the limits each check was made with

limiterVars == <<adapter, failClosed, shadowed, spent, at, response, met, ran, limitsUsed>>

Rule(route, limit) == [route |-> route, limit |-> limit]

GlobalChecks == [i \in 1..Len(GlobalLimits) |-> Rule("global", GlobalLimits[i])]

\* Each layer checks its own rule.
StackedChecks == [i \in 1..Len(RouteLimits) |-> Rule("route", RouteLimits[i])]

\* In Django each layer loops over all rules of the view, in the order in
\* which the decorators were applied.
RepeatedChecks ==
  LET n == Len(RouteLimits) IN
  [i \in 1..(n * n) |-> Rule("route", RouteLimits[n - ((i - 1) % n)])]

\* The checks a request goes through.
Checks == GlobalChecks \o IF adapter = "django" THEN RepeatedChecks ELSE StackedChecks

Buckets == [route : {"global", "route"}, limit : 1..MaxLimit]

LimiterInit ==
  /\ adapter \in {"fastapi", "flask", "django", "drf"}
  /\ failClosed \in IF adapter = "drf" THEN {TRUE} ELSE BOOLEAN
  /\ shadowed \in IF adapter = "fastapi" THEN BOOLEAN ELSE {FALSE}
  /\ spent = [b \in Buckets |-> 0]
  /\ at = [r \in Requests |-> 0]
  /\ response = [r \in Requests |-> "none"]
  /\ met = [r \in Requests |-> "none"]
  /\ ran = 0
  /\ limitsUsed = [i \in 1..Len(Checks) |-> {}]

Respond(r, a) == response' = [response EXCEPT ![r] = a]

Pending(r) == at[r] > 0 /\ response[r] = "none"

Rest == UNCHANGED <<adapter, failClosed, shadowed>>

\* A request arrives, and the pipeline has nothing against it.
Arrive(r) ==
  /\ at[r] = 0
  /\ at' = [at EXCEPT ![r] = 1]
  /\ Rest /\ UNCHANGED <<spent, response, met, ran, limitsUsed>>

\* The limits a rule may be applied with: in FastAPI load lowers it, trust
\* raises it and the session does either, never to less than one.
EffectiveLimits(limit) ==
  IF adapter = "fastapi"
  THEN {l \in 1..MaxLimit : \E m \in Multipliers : l = Max({1, (limit * m[1]) \div m[2]})}
  ELSE {limit}

\* Before the first bucket, FastAPI answers a honeypot path with "not found",
\* and a denied network as any denial.
TurnAway(r) ==
  /\ adapter = "fastapi"
  /\ Pending(r) /\ at[r] = 1 /\ Len(Checks) > 0
  /\ Respond(r, "404") \/ Respond(r, "429")
  /\ Rest /\ UNCHANGED <<spent, at, met, ran, limitsUsed>>

\* Mutant of Fits: one too many.
FitsOneMore(b) == spent[b] <= b.limit

\* acquire() on the bucket of the effective rule
Fits(b) == spent[b] < b.limit

\* A denial of page traffic without a pass is the interstitial.
Deny(r) == Respond(r, "429") \/ (adapter = "fastapi" /\ Respond(r, "page"))

\* _check(): the rule with its effective limit, and its bucket.  In shadow
\* mode there are no denials.
Check(r) ==
  /\ Pending(r) /\ at[r] <= Len(Checks)
  /\ \E limit \in EffectiveLimits(Checks[at[r]].limit) :
       LET b == Rule(Checks[at[r]].route, limit) IN
       /\ limitsUsed' = [limitsUsed EXCEPT ![at[r]] = @ \union {limit}]
       /\ spent' = [spent EXCEPT ![b] = IF Fits(b) THEN @ + 1 ELSE @]
       /\ \/ /\ Fits(b) \/ shadowed
             /\ at' = [at EXCEPT ![r] = @ + 1]
             /\ UNCHANGED response
          \/ /\ ~Fits(b) /\ ~shadowed
             /\ Deny(r)
             /\ UNCHANGED at
  /\ Rest /\ UNCHANGED <<met, ran>>

\* Mutant of FailsOpen: the mode is not asked for.
FailsOpenAlways(route) == route = "global"

\* BackendFailure lets a request through in the middleware only: a rule of a
\* decorator is fail_closed, as all that parse_rule_string makes.
FailsOpen(route) == route = "global" /\ ~failClosed

\* What a failure that does not open comes to: in a view it surfaces.
Failure(route) == IF route = "global" THEN "429" ELSE "500"

\* The storage fails under a check: where that opens, the request goes
\* straight to the view's own checks.
FailCheck(r) ==
  /\ Pending(r) /\ at[r] <= Len(Checks)
  /\ LET route == Checks[at[r]].route IN
     /\ met' = [met EXCEPT ![r] = route]
     /\ \/ /\ FailsOpen(route)
           /\ at' = [at EXCEPT ![r] = Len(GlobalLimits) + 1]
           /\ UNCHANGED response
        \/ /\ ~FailsOpen(route)
           /\ Respond(r, Failure(route))
           /\ UNCHANGED at
  /\ Rest /\ UNCHANGED <<spent, ran, limitsUsed>>

\* The view is reached, and answers.
Handle(r) ==
  /\ Pending(r) /\ at[r] = Len(Checks) + 1
  /\ Respond(r, "200") \/ Respond(r, "500")
  /\ ran' = IF met[r] = "none" THEN ran + 1 ELSE ran
  /\ Rest /\ UNCHANGED <<spent, at, met, limitsUsed>>

LimiterNext ==
  \E r \in Requests : Arrive(r) \/ TurnAway(r) \/ Check(r) \/ FailCheck(r) \/ Handle(r)

-----------------------------------------------------------------------------

LimiterTypeOK ==
  /\ spent \in [Buckets -> 0..MaxLimit]
  /\ \A b \in Buckets : spent[b] <= b.limit
  /\ at \in [Requests -> 0..(Len(Checks) + 1)]
  /\ response \in [Requests -> {"none", "200", "404", "429", "page", "500"}]
  /\ met \in [Requests -> {"none", "global", "route"}]
  /\ ran \in 0..Cardinality(Requests)

(***************************************************************************)
(* Within a window, the view runs as often as every rule allows and no     *)
(* more.  Whenever the effective limit of a rule changes, so does the key  *)
(* of its bucket: the rule allows the sum of the limits it was used with.  *)
(* In Django a rule is charged once for every decorator of the view: the   *)
(* view runs as often as its n-th part allows.                             *)
(***************************************************************************)
AdmittedWithinLimits ==
  ~shadowed =>
    \A i \in DOMAIN limitsUsed :
      LET charges == IF adapter = "django" /\ Checks[i].route = "route"
                     THEN Len(RouteLimits) ELSE 1
      IN charges * ran <= SumSet(limitsUsed[i])

(***************************************************************************)
(* A request that met a failing storage gets to the view only where the    *)
(* configuration says so and the failure was in the middleware; nobody     *)
(* fails open by being denied, nor does a failure of a decorator's check   *)
(* pass for an answer of the view.                                          *)
(***************************************************************************)
FailureModeIsHonoured ==
  \A r \in Requests :
    met[r] # "none" /\ at[r] = Len(Checks) + 1 => met[r] = "global" /\ ~failClosed

=============================================================================
