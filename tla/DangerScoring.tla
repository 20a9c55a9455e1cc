-------------------------- MODULE DangerScoring --------------------------
(***************************************************************************)
(* DangerScorer: what a frame of detections means for the chickens.        *)
(*                                                                         *)
(* Confidences are integers in units of 0.00001 and risks in units of      *)
(* 0.01, so that scores are exact in units of 0.0000001; a published score *)
(* is in units of 0.0001.  Labels are those left after strip and lower.    *)
(***************************************************************************)
EXTENDS Integers, Sequences, FiniteSetsExt

RISK_BY_LABEL ==
  [l \in {"chicken", "other_poultry", "person", "cat", "dog",
          "wild_mammal_threat", "rodent", "bird"} |->
     CASE l \in {"chicken", "other_poultry", "person"} -> 0
       [] l = "cat"    -> 55
       [] l = "dog"    -> 75
       [] l = "wild_mammal_threat" -> 95
       [] l = "rodent" -> 65
       [] l = "bird"   -> 60]

LABEL_ALIASES ==
  [l \in {"fox", "marten", "weasel", "marten_weasel", "other_bird", "bird_of_prey"} |->
     IF l \in {"other_bird", "bird_of_prey"} THEN "bird" ELSE "wild_mammal_threat"]

(* A confidence of 1. *)
certain == 100000

Detection == [label : STRING, confidence : 0..certain]

ThreatLevels == {"none", "low", "medium", "high", "critical"}

(* The order of the levels, in which the properties compare them.          *)
Danger(level) == CHOOSE n \in 0..4 : <<"none", "low", "medium", "high", "critical">>[n + 1] = level

confidence_threshold == 35000
medium_threshold   == 4000000
high_threshold     == 7000000
critical_threshold == 9000000

normalized_label(l) == IF l \in DOMAIN LABEL_ALIASES THEN LABEL_ALIASES[l] ELSE l

DetectionScore(d) ==
  LET l == normalized_label(d.label)
  IN  IF l \in DOMAIN RISK_BY_LABEL THEN RISK_BY_LABEL[l] * d.confidence ELSE 0

LevelForScore(score) ==
  IF score >= critical_threshold THEN "critical"
  ELSE IF score >= high_threshold THEN "high"
  ELSE IF score >= medium_threshold THEN "medium"
  ELSE IF score > 0 THEN "low" ELSE "none"

(* The elements of ds at the positions of P, in their order.  (SelectSeq   *)
(* would do, but nothing can be proved of what takes an operator.)         *)
Those(ds, P) ==
  LET those[n \in 0..Len(ds)] ==
        IF n = 0 THEN <<>>
        ELSE IF n \in P THEN Append(those[n - 1], ds[n]) ELSE those[n - 1]
  IN  those[Len(ds)]

ConsideredDetections(ds) ==
  Those(ds, {n \in DOMAIN ds : ds[n].confidence >= confidence_threshold})

ScoredDetections(considered) ==
  Those(considered, {n \in DOMAIN considered : DetectionScore(considered[n]) > 0})

(* Mutant: the first of the threats decides, not the worst.               *)
ScoreOfFirst(scored) == IF scored = <<>> THEN 0 ELSE DetectionScore(scored[1])

ScoreOf(scored) == Max({0} \cup {DetectionScore(scored[i]) : i \in DOMAIN scored})

(* Mutant: the score is published as it is.                                *)
Unrounded(score) == {score}

(* round(score, 4).  Which way a tie goes depends on the binary number     *)
(* that stands for the score.                                              *)
Rounded(score) == {q \in (score \div 1000)..(score \div 1000 + 1) :
                     2 * (q * 1000 - score) \in -1000..1000}

(* DangerScorer.score: the level is that of the score before rounding.     *)
Score(ds) ==
  LET considered == ConsideredDetections(ds)
      scored     == ScoredDetections(considered)
      score      == ScoreOf(scored)
  IN  {[level |-> LevelForScore(score), score |-> q, triggering_detections |-> scored,
        detection_count |-> Len(considered)] : q \in Rounded(score)}

DangerAssessment == [level : ThreatLevels, score : 0..10000,
                     triggering_detections : Seq(Detection),
                     detection_count : Nat]

NoThreat == [level |-> "none", score |-> 0, triggering_detections |-> <<>>,
             detection_count |-> 0]
===========================================================================
