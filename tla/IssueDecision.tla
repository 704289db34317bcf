---------------------------- MODULE IssueDecision ----------------------------
(***************************************************************************)
(* What the server answers for one issue (src/repotriage/inference/): the  *)
(* labels whose scores reach the classification threshold, and whether it  *)
(* abstains. The two thresholds are read from the policies as numbers of   *)
(* hundredths; ServedUnit stands for that hundred. A bundle is             *)
(* [model, classification, abstention], an answer [score, predicted,       *)
(* abstention].                                                            *)
(***************************************************************************)
EXTENDS AbstentionSelection

CONSTANT ServedUnit

\* A bundle's artifacts are checked, each on its own, and for one classification.
Loadable(baseline, policy, abstention) ==
    /\ BaselineIntact(baseline) /\ ThresholdIntact(policy) /\ AbstentionIntact(abstention)
    /\ policy.selected = abstention.classification

LoadThresholds(baseline, policy, abstention) ==
    [model |-> baseline.winner,
     classification |-> [bp |-> policy.selected, den |-> ServedUnit],
     abstention |-> [bp |-> abstention.selected, den |-> ServedUnit]]

\* The highest score first and then in label order.
HighestFirst(S, score) ==
    LET before(l) == {k \in S : score[k] > score[l] \/ (score[k] = score[l] /\ k < l)}
    IN [n \in 1..Cardinality(S) |-> CHOOSE l \in S : Cardinality(before(l)) = n - 1]

\* The predicted labels.
ApplyThreshold(score, threshold) ==
    LET pred == Thresholded(<<score>>, threshold)[1]
    IN [pred |-> pred,
        predicted |-> HighestFirst({l \in DOMAIN score : pred[l] = 1}, score)]

\* Mutant: confidence has to be above the threshold.
DecideAbove(score, pred, threshold) ==
    LET confidence == Confidence(score, pred)
        met == confidence * threshold.den > threshold.bp * Unit
    IN [confidence |-> confidence, abstains |-> confidence = Undefined \/ ~met,
        reason |-> IF confidence = Undefined THEN "no_labels_predicted" ELSE "confidence"]

DecideAbstention(score, pred, threshold) ==
    LET confidence == Confidence(score, pred)
        met == Reaches(confidence, threshold)
    IN [confidence |-> confidence, abstains |-> confidence = Undefined \/ ~met,
        reason |-> IF confidence = Undefined THEN "no_labels_predicted" ELSE "confidence"]

InferIssue(bundle, score) ==
    LET classified == ApplyThreshold(score, bundle.classification)
    IN [score |-> score, predicted |-> classified.predicted,
        abstention |-> DecideAbstention(score, classified.pred, bundle.abstention)]

\* validate_inference_response, which raises ValueError if not.
ResponseValid(bundle, answer) ==
    /\ \A k \in DOMAIN answer.predicted :
          Reaches(answer.score[answer.predicted[k]], bundle.classification)
    /\ answer.predicted = <<>> =>
          answer.abstention = [confidence |-> Undefined, abstains |-> TRUE,
                               reason |-> "no_labels_predicted"]
=============================================================================
