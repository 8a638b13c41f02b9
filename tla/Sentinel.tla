------------------------------- MODULE Sentinel -------------------------------
(***************************************************************************)
(* SentinelDetector (protection/sentinel.py): a forest of random trees,    *)
(* built again from the last samples every window_size samples, scores     *)
(* each sample, and a score above the percentile of the last scores is an  *)
(* anomaly.  The lock makes analyze() one step.                            *)
(*                                                                         *)
(* A score is the negated average depth at which a sample ends in the      *)
(* trees.  These split at random, so it may be any; it is 0 without trees, *)
(* and from trees that are only a leaf.  Trees are leaves when what they   *)
(* were built from is all the same, and may be when it is the same in some *)
(* feature.                                                                *)
(***************************************************************************)
EXTENDS Integers, FiniteSets, SequencesExt

CONSTANTS
  Samples,     \* feature vectors
  Depths,      \* average depths in a forest that splits
  WindowSize,  \* window_size
  MinScores,   \* scores it takes to have a threshold, 10 in the code
  ScoreWindow, \* score_window
  OneIn        \* 1 / target_fpr

ASSUME SentinelAssumption ==
  /\ Depths \subseteq Nat \ {0}
  /\ MinScores \in Nat \ {0}
  /\ ScoreWindow \in Nat \ {0}
  /\ OneIn \in Nat \ {0, 1}

VARIABLES
  reference, \* _reference_window, as far as the next forest will see it
  forest,    \* _trees: "none", all "leaves", or one that "splits"
  scores,    \* _scores, and by which forest each was given (history)
  verdict    \* the last score, and whether it is an anomaly

sentinelVars == <<reference, forest, scores, verdict>>

SentinelInit ==
  /\ reference = <<>>
  /\ forest = "none"
  /\ scores = <<>>
  /\ verdict = [score |-> 0, anomaly |-> FALSE]

\* _rebuild: too small a window leaves the trees as they are.
Rebuilt(window) ==
  IF Len(window) < 2 THEN {forest}
  ELSE IF \A i \in DOMAIN window : window[i] = window[1] THEN {"leaves"}
  ELSE {"leaves", "splits"}

\* score
PossibleScores == IF forest = "splits" THEN {-d : d \in Depths} ELSE {0}

\* Mutant of HasModel: asked after the update, when there may be trees.
HasModelByNow == forest' # "none"

\* has_model: the score is a measurement, and not the neutral placeholder.
HasModel == forest # "none"

\* the position of the threshold among n scores in order
Percentile(n) == n - n \div OneIn

NotAbove(score) == {i \in DOMAIN scores : scores[i].score <= score}

\* _compute_threshold: what stands at a position of the list in order is the
\* least of the scores that so many do not exceed.
ScoreThreshold ==
  LET n == Len(scores) IN
  IF n < MinScores THEN 0
  ELSE Min({score \in {scores[i].score : i \in DOMAIN scores} :
              Cardinality(NotAbove(score)) >= Percentile(n)})

\* analyze
Analyze(sample) ==
  LET window == Append(reference, sample) IN
  \E score \in PossibleScores :
    /\ IF Len(window) < WindowSize
       THEN reference' = window /\ UNCHANGED forest
       ELSE reference' = <<>> /\ forest' \in Rebuilt(window)
    /\ verdict' = [score |-> score, anomaly |-> score > ScoreThreshold]
    /\ scores' = IF ~HasModel THEN scores
                 ELSE (IF Len(scores) < ScoreWindow THEN scores ELSE Tail(scores))
                        \o <<[score |-> score, by |-> forest]>>

SentinelNext == \E sample \in Samples : Analyze(sample)

-----------------------------------------------------------------------------

(***************************************************************************)
(* Once there are enough scores a sample is an anomaly if, and only if, no *)
(* more of the last scores than the false positive rate allows are as high *)
(* as its own: "a new maximum can never blind the detector"                *)
(* (sentinel.py:276).  And what could blind it, a window with more zeros   *)
(* than that, only holds zeros that a forest of leaves has measured - not  *)
(* the placeholders of the time before there were trees.                   *)
(***************************************************************************)
TailIsFlagged ==
  [][LET n == Len(scores)
         asHigh == {i \in 1..n : scores[i].score >= verdict'.score}
         zeros == {i \in 1..n : scores[i].score = 0}
     IN /\ n >= MinScores => (verdict'.anomaly <=> Cardinality(asHigh) <= n \div OneIn)
        /\ \A i \in zeros : scores[i].by = "leaves"]_sentinelVars

=============================================================================
