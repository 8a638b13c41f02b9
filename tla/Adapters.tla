------------------------------ MODULE Adapters ------------------------------
(***************************************************************************)
(* The host: a FastAPI, Flask or Django application with its limiter, or   *)
(* one with DRF throttles.  They share no state, so a behaviour is of one  *)
(* of them.                                                                *)
(***************************************************************************)
EXTENDS Limiter, Throttle

adapterVars == <<limiterVars, throttleVars>>

AdaptersInit == LimiterInit /\ ThrottleInit

AdaptersNext ==
  \/ adapter # "drf" /\ LimiterNext /\ UNCHANGED throttleVars
  \/ adapter = "drf" /\ ThrottleNext /\ UNCHANGED limiterVars

\* A thread that can go on goes on, and a loop's thread comes up.
AdaptersSpec ==
  /\ AdaptersInit
  /\ [][AdaptersNext]_adapterVars
  /\ \A t \in Threads :
       WF_adapterVars(adapter = "drf" /\ ThrottleStep(t) /\ UNCHANGED limiterVars)
  /\ \A l \in 1..MaxCalls :
       WF_adapterVars(adapter = "drf" /\ LoopStarts(l) /\ UNCHANGED limiterVars)

(***************************************************************************)
(* Type invariant: also, a bucket never holds less than nothing nor more   *)
(* than was put in, and a thread waits for a loop that was made.           *)
(***************************************************************************)
AdaptersTypeOK ==
  /\ LimiterTypeOK
  /\ cache \in Seq(Rates)
  /\ storage \in 0..storages
  /\ tokens \in [Stores -> Int] /\ \A s \in Stores : tokens[s] >= -1
  /\ running \subseteq 1..loops
  /\ \A t \in Threads :
       /\ tpc[t] = "wait" => mine[t] \in 1..loops
       /\ tpc[t] \in {"insert", "bridge", "acquire", "lock", "wait"} => held[t] \in 1..storages

=============================================================================
