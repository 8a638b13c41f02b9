------------------------------- MODULE Detectors -------------------------------
(***************************************************************************)
(* The detectors of the protection pipeline, and the tables and sketches   *)
(* of the defence, under one clock.  They share no state (the pipeline is  *)
(* in Protection), so a behaviour is of one of them.                       *)
(***************************************************************************)
EXTENDS Probes, Traffic, Sentinel, Sessions, Sketches

VARIABLE subject \* the one at work

detectorsVars == <<clock, probeVars, trafficVars, sentinelVars, sessionVars, sketchVars, subject>>

DetectorsInit ==
  /\ clock = 0
  /\ subject \in {"probes", "traffic", "sentinel", "sessions", "counts", "cuckoo", "hll"}
  /\ ProbesInit /\ TrafficInit /\ SentinelInit /\ SessionsInit /\ SketchesInit

DetectorsTick ==
  /\ subject \in {"probes", "traffic", "sessions"}
  /\ clock < MaxClock
  /\ clock' = clock + 1
  /\ ProbesAge
  /\ UNCHANGED <<trafficVars, sentinelVars, sessionVars, sketchVars, subject>>

DetectorsNext ==
  \/ DetectorsTick
  \/ /\ subject = "probes" /\ ProbesNext
     /\ UNCHANGED <<clock, trafficVars, sentinelVars, sessionVars, sketchVars, subject>>
  \/ /\ subject = "traffic" /\ TrafficNext
     /\ UNCHANGED <<clock, probeVars, sentinelVars, sessionVars, sketchVars, subject>>
  \/ /\ subject = "sentinel" /\ SentinelNext
     /\ UNCHANGED <<clock, probeVars, trafficVars, sessionVars, sketchVars, subject>>
  \/ /\ subject = "sessions" /\ SessionsNext
     /\ UNCHANGED <<clock, probeVars, trafficVars, sentinelVars, sketchVars, subject>>
  \/ /\ \/ subject = "hll" /\ (StartMerge \/ MergeRegister)
        \/ subject = "cuckoo" /\ (Kick \/ GiveUp)
        \/ \E i \in Items :
             \/ subject = "counts" /\ AddItem(i)
             \/ subject = "cuckoo" /\ (AddMember(i) \/ RemoveMember(i))
             \/ subject = "hll" /\ \E h \in 1..2 : CountIn(h, i)
     /\ UNCHANGED <<clock, probeVars, trafficVars, sentinelVars, sessionVars, subject>>

DetectorsSpec == DetectorsInit /\ [][DetectorsNext]_detectorsVars

=============================================================================
