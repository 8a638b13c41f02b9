----------------------------- MODULE Protection -----------------------------
(***************************************************************************)
(* What requests do to a client's standing: the ban manager and the trust  *)
(* cache as the protection pipeline (protection/pipeline.py) drives them   *)
(* for the FastAPI limiter (adapters/fastapi/limiter.py), with the failed  *)
(* challenges of challenge/manager.py.  Requests overlap: each is a task   *)
(* that suspends while a rule's acquire() is under way and while the       *)
(* application or the challenge's provider works, and everything between   *)
(* two such points is one step of the event loop.                          *)
(*                                                                         *)
(* The circuit breaker of the pipeline is the module of that name; the     *)
(* detectors appear by what they do here, which is to turn requests away.  *)
(***************************************************************************)
EXTENDS Ban, Trust

CONSTANTS
  Requests,          \* requests that may be under way together
  SuccessThreshold,  \* trust_success_threshold
  MaxTracked,        \* trust_max_tracked
  MaxOffences        \* bound on the violations of all keys within a window

ASSUME ProtectionAssumption ==
  /\ SuccessThreshold \in Nat \ {0}
  /\ MaxTracked \in Nat \ {0}
  /\ MaxOffences \in Nat
  /\ MaxClock \in Nat
  /\ None \notin [key : Keys, at : {"rule", "application"}]

VARIABLES
  streak,   \* _trust_streaks: successes counted per key, 0 if not tracked
  tracked,  \* the keys of _trust_streaks in insertion order
  task,     \* each request under way: its key and what it waits for
  clean,    \* history: successes since the last violation that the pipeline
            \* was told of, counted up to SuccessThreshold
  pardoned  \* history: the keys whose bans an administrator lifted by the
            \* last step

pipelineVars == <<streak, tracked, clean>>

vars == <<clock, banVars, trustVars, pipelineVars, task, pardoned>>

Init ==
  /\ clock = 0
  /\ BanInit
  /\ TrustInit
  /\ streak = [k \in Keys |-> 0]
  /\ tracked = <<>>
  /\ task = [r \in Requests |-> None]
  /\ clean = [k \in Keys |-> 0]
  /\ pardoned = {}

Tick ==
  /\ clock < MaxClock
  /\ clock' = clock + 1
  /\ BansAge
  /\ UNCHANGED <<trustVars, pipelineVars, task>>

\* request r is suspended in a rule's acquire(), or in the application
Awaits(r, at) == task[r] # None /\ task[r].at = at

MayOffend ==
  Cardinality({x \in Keys \X (1..MaxOffences) : x[2] <= Len(offences[x[1]])})
    < MaxOffences

(***************************************************************************)
(* A request on a trap path is answered before anything else is looked at. *)
(* The hit counts for the ban and for nothing else.                        *)
(***************************************************************************)
HitHoneypot(k) ==
  /\ MayOffend
  /\ RecordViolation(k)
  /\ UNCHANGED <<clock, trustVars, pipelineVars, task>>

(***************************************************************************)
(* check(): a request is turned away if its key is banned or a detector    *)
(* objects; looking tidies the key's entries up.                           *)
(***************************************************************************)
TurnAway(k) ==
  /\ PruneExpired(k)
  /\ UNCHANGED <<clock, trustVars, pipelineVars, task>>

\* A request is let through and goes for its first rule, whose limit
\* depends on whether the key is trusted.
Admit(r, k) ==
  /\ task[r] = None
  /\ ~InForce(k)
  /\ PruneExpired(k)
  /\ CheckTrust(k)
  /\ task' = [task EXCEPT ![r] = [key |-> k, at |-> "rule"]]
  /\ UNCHANGED <<clock, pipelineVars>>

\* All global rules grant the request: the application has it.
Grant(r) ==
  /\ Awaits(r, "rule")
  /\ task' = [task EXCEPT ![r].at = "application"]
  /\ UNCHANGED <<clock, banVars, trustVars, pipelineVars>>

\* A rule of the route is next.
NextRule(r) ==
  /\ Awaits(r, "application")
  /\ CheckTrust(task[r].key)
  /\ task' = [task EXCEPT ![r].at = "rule"]
  /\ UNCHANGED <<clock, banVars, pipelineVars>>

ForgetStreak(k) ==
  /\ streak' = [streak EXCEPT ![k] = 0]
  /\ tracked' = Without(tracked, k)

\* Mutant of ReportViolation: the success streak goes on.
ReportToBanAndTrust(k) ==
  /\ MayOffend
  /\ RecordViolation(k)
  /\ Poison(k)
  /\ clean' = [clean EXCEPT ![k] = 0]
  /\ UNCHANGED <<streak, tracked>>

\* ProtectionPipeline.record_violation
ReportViolation(k) ==
  /\ MayOffend
  /\ RecordViolation(k)
  /\ Poison(k)
  /\ ForgetStreak(k)
  /\ clean' = [clean EXCEPT ![k] = 0]

\* A rule denies the request; the violation is recorded at once.
Deny(r) ==
  /\ Awaits(r, "rule")
  /\ ReportViolation(task[r].key)
  /\ task' = [task EXCEPT ![r] = None]
  /\ UNCHANGED <<clock>>

\* A rule in shadow mode denies it: recorded all the same, and it goes on.
DenyInShadow(r) ==
  /\ Awaits(r, "rule")
  /\ ReportViolation(task[r].key)
  /\ task' = [task EXCEPT ![r].at = "application"]
  /\ UNCHANGED <<clock>>

StreakIsFull(k) == streak[k] + 1 >= SuccessThreshold

(***************************************************************************)
(* record_success: one more in the streak, and the streak that is long     *)
(* enough is turned into trust.  A streak too many pushes the oldest out.  *)
(***************************************************************************)
CountSuccess(k) ==
  LET full == Len(tracked) >= MaxTracked /\ streak[k] = 0
      others == IF full THEN Tail(tracked) ELSE tracked
      kept == [j \in Keys |-> IF full /\ j = Head(tracked) THEN 0 ELSE streak[j]]
  IN /\ clean' = [clean EXCEPT ![k] = AtMost(SuccessThreshold, @ + 1)]
     /\ \/ /\ StreakIsFull(k)
           /\ UpdateTrusted(k)
           /\ ForgetStreak(k)
        \/ /\ ~StreakIsFull(k)
           /\ streak' = [kept EXCEPT ![k] = streak[k] + 1]
           /\ tracked' = IF streak[k] = 0 THEN Append(others, k) ELSE tracked
           /\ UNCHANGED trustVars

Succeed(r) ==
  /\ Awaits(r, "application")
  /\ CountSuccess(task[r].key)
  /\ task' = [task EXCEPT ![r] = None]
  /\ UNCHANGED <<clock, banVars>>

(***************************************************************************)
(* The application is the challenge's verify endpoint and the client has   *)
(* failed too often: ChallengeManager.record_failure goes to the ban       *)
(* manager and the trust cache, past the pipeline and its streaks.         *)
(***************************************************************************)
FailChallenge(r) ==
  /\ Awaits(r, "application")
  /\ MayOffend
  /\ RecordViolation(task[r].key)
  /\ Poison(task[r].key)
  /\ task' = [task EXCEPT ![r] = None]
  /\ UNCHANGED <<clock, pipelineVars>>

\* The request ends without a report to bans or trust: a backend failure, an
\* error response, an exception, a client that went away.
End(r) ==
  /\ task[r] # None
  /\ task' = [task EXCEPT ![r] = None]
  /\ UNCHANGED <<clock, banVars, trustVars, pipelineVars>>

\* Administrators look at, lift and impose bans.
Administer ==
  /\ \/ \E k \in Keys : ClearBan(k) /\ pardoned' = {k} /\ UNCHANGED trustVars
     \/ ClearAll /\ pardoned' = Keys /\ UNCHANGED trustVars
     \/ /\ \/ GetActiveBans /\ UNCHANGED trustVars
           \/ \E k \in Keys : LookUpState(k) /\ UNCHANGED banVars
           \/ \E k \in Keys : BanTrust(k) /\ UNCHANGED banVars
           \/ ClearTrust /\ UNCHANGED banVars
        /\ pardoned' = {}
  /\ UNCHANGED <<clock, pipelineVars, task>>

\* What requests do, and what time does.
Serve ==
  /\ \/ Tick
     \/ \E k \in Keys : HitHoneypot(k) \/ TurnAway(k)
     \/ \E r \in Requests, k \in Keys : Admit(r, k)
     \/ \E r \in Requests :
          \/ Grant(r) \/ NextRule(r) \/ Deny(r) \/ DenyInShadow(r)
          \/ Succeed(r) \/ FailChallenge(r) \/ End(r)
  /\ pardoned' = {}

Next == Serve \/ Administer

Spec == Init /\ [][Next]_vars

-----------------------------------------------------------------------------

(***************************************************************************)
(* Type invariant: streaks are counted below the threshold only, and every *)
(* key that has one is tracked once.                                       *)
(***************************************************************************)
TypeOK ==
  /\ clock \in Nat
  /\ BanTypeOK
  /\ TrustTypeOK
  /\ streak \in [Keys -> 0..(SuccessThreshold - 1)]
  /\ tracked \in Seq(Keys)
  /\ task \in [Requests ->
                [key : Keys, at : {"rule", "application"}] \union {None}]
  /\ clean \in [Keys -> 0..SuccessThreshold]
  /\ pardoned \subseteq Keys

(***************************************************************************)
(* "Only escalate, never downgrade" (ban.py:106): a ban in force is not    *)
(* lowered, shortened or lifted by anything that requests do, or that      *)
(* looking at it tidies up; only its time and an administrator's clearing  *)
(* it end it.                                                              *)
(***************************************************************************)
NoSooner(a, b) == a = Forever \/ (b # Forever /\ a >= b)

BanIsKept ==
  [][\A k \in Keys : InForce(k) =>
       \/ /\ bans'[k] # None
          /\ bans'[k].level >= bans[k].level
          /\ NoSooner(bans'[k].expires, bans[k].expires)
       \/ k \in pardoned']_vars

(***************************************************************************)
(* Every ban is deserved: when it is imposed, the key has had as many      *)
(* violations within one window as its level asks for, whatever was        *)
(* forgotten late, tidied up or cleared before.                            *)
(***************************************************************************)
BansAreEarned ==
  [][\A k \in Keys :
       bans'[k] # bans[k] /\ bans'[k] # None
       => Len(offences'[k]) >= Threshold + 2 * (bans'[k].level - 1)]_vars

(***************************************************************************)
(* A key with a threshold's worth of violations within one window is       *)
(* banned after the last of them - unless an earlier ban that is over was  *)
(* still lying around.                                                     *)
(***************************************************************************)
OffendersAreBanned ==
  [][\A k \in Keys :
       EnoughOffences(k) /\ (bans[k] = None \/ InForce(k)) => InForce(k)']_vars

(***************************************************************************)
(* Trust is earned: a key that counts as trusted has had the whole number  *)
(* of successes since the pipeline last heard of a violation, whatever     *)
(* requests from before that violation still end, and whatever streaks and *)
(* verdicts were evicted in between.                                       *)
(***************************************************************************)
TrustIsEarned ==
  \A k \in Keys : LevelOf(k) = "trusted" => clean[k] = SuccessThreshold

=============================================================================
