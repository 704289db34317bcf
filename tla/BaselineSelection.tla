------------------------- MODULE BaselineSelection -------------------------
(***************************************************************************)
(* How train-baseline chooses among its candidates and how the artifact is *)
(* checked (src/repotriage/baseline/). A candidate is [id, ngram,          *)
(* weighted], its id a number in the order of the names. A split is        *)
(* [targets, scores], scores[id] being what the candidate's trained model  *)
(* gives for the split's texts. An artifact is [winner, results,           *)
(* validation, test, testMetrics]: the manifest's winner, the candidates'  *)
(* metrics and ranking, and every prediction by candidate and row.         *)
(***************************************************************************)
EXTENDS Metrics

Ids(config) == {config.candidates[k].id : k \in DOMAIN config.candidates}
CandidateOf(config, id) ==
    CHOOSE c \in ToSet(config.candidates) : c.id = id

\* The first key that differs decides, the greater first.
RanksBefore(s, t) ==
    \E k \in DOMAIN s : s[k] > t[k] /\ \A j \in 1..(k - 1) : s[j] = t[j]

\* Of pairs <<x, key>>, the x of the first.
BestOf(keyed) ==
    (CHOOSE k \in keyed : \A other \in keyed \ {k} : RanksBefore(k[2], other[2]))[1]

(***************************************************************************)
(* Predictions and their metrics.                                          *)
(***************************************************************************)

PredictionsOf(split, id, threshold) ==
    LET pred == Thresholded(split.scores[id], threshold)
    IN [i \in DOMAIN split.targets |->
           [true |-> split.targets[i], pred |-> pred[i], score |-> split.scores[id][i]]]

MetricsFrom(records) ==
    SplitMetrics([i \in DOMAIN records |-> records[i].true],
                 [i \in DOMAIN records |-> records[i].pred],
                 [i \in DOMAIN records |-> records[i].score])

\* What is read back: vectors of the right length whose predictions follow from the scores.
StrictRecords(records, targets, threshold) ==
    \A i \in DOMAIN records :
        /\ Len(records[i].true) = targets /\ Len(records[i].pred) = targets
        /\ Len(records[i].score) = targets
        /\ \A l \in 1..targets :
              /\ records[i].score[l] \in 0..Unit
              /\ records[i].pred[l] = Bit(Reaches(records[i].score[l], threshold))

(***************************************************************************)
(* The selection, and its audit when an artifact is validated.             *)
(***************************************************************************)

MetricKey(m) == <<m.macroAP, m.macroF1, m.microF1>>

\* Equally good: the smaller n-gram, then no class weights, then the greatest id.
SelectionKey(config, id, m) ==
    LET c == CandidateOf(config, id)
    IN <<m.macroAP, m.macroF1, m.microF1, -c.ngram, -Bit(c.weighted), id>>

\* `value or -inf`: zero counts as undefined.
AuditKey(id, m) ==
    LET audited(value) == IF value = 0 THEN Undefined ELSE value
    IN <<audited(m.macroAP), audited(m.macroF1), audited(m.microF1), id>>

SelectCandidate(config, metrics) ==
    [winner |-> BestOf({<<id, SelectionKey(config, id, metrics[id])>> : id \in Ids(config)}),
     ranked |-> SetToSortSeq(Ids(config), LAMBDA a, b :
                    RanksBefore(SelectionKey(config, a, metrics[a]),
                                SelectionKey(config, b, metrics[b]))),
     metrics |-> metrics]

\* run_candidate_selection: on the validation split only.
CandidateSelection(config, validation) ==
    LET predictions == [id \in Ids(config) |-> PredictionsOf(validation, id, config.threshold)]
    IN [results |-> SelectCandidate(config, [id \in Ids(config) |->
                                                MetricsFrom(predictions[id])]),
        validation |-> predictions]

BaselineOf(config, selection, test) ==
    LET winner == selection.results.winner
        predictions == PredictionsOf(test, winner, config.threshold)
    IN [winner |-> winner, results |-> selection.results,
        validation |-> selection.validation, test |-> predictions,
        testMetrics |-> MetricsFrom(predictions)]

BaselineIntact(artifact) == artifact.results.winner = artifact.winner

SourceAligned(records, split) ==
    /\ Len(records) = Len(split.targets)
    /\ \A i \in DOMAIN records : records[i].true = split.targets[i]

AuditedMetrics(m) == <<m.subset, m.hamming, m.macroAP, m.macroF1, m.microF1>>

\* Mutant: the metrics are computed again, the winner is taken as it is.
MetricsAudited(config, artifact) ==
    /\ DOMAIN artifact.validation = Ids(config)
    /\ \A id \in Ids(config) :
          AuditedMetrics(artifact.results.metrics[id])
              = AuditedMetrics(MetricsFrom(artifact.validation[id]))

\* The metrics are computed again from the predictions, and the winner from the metrics,
\* by a shorter key than the selection's.
SelectionAudited(config, artifact) ==
    LET again == [id \in Ids(config) |-> MetricsFrom(artifact.validation[id])]
    IN /\ DOMAIN artifact.validation = Ids(config)
       /\ \A id \in Ids(config) :
             AuditedMetrics(artifact.results.metrics[id]) = AuditedMetrics(again[id])
       /\ artifact.results.winner = BestOf({<<id, AuditKey(id, again[id])>> : id \in Ids(config)})

BaselineAgainstInputs(artifact, config, validation, test) ==
    LET targets == Len(validation.targets[1])
    IN /\ BaselineIntact(artifact)
       /\ \A id \in DOMAIN artifact.validation :
             /\ SourceAligned(artifact.validation[id], validation)
             /\ StrictRecords(artifact.validation[id], targets, config.threshold)
       /\ SelectionAudited(config, artifact)
       /\ SourceAligned(artifact.test, test)
       /\ StrictRecords(artifact.test, targets, config.threshold)
       /\ AuditedMetrics(artifact.testMetrics) = AuditedMetrics(MetricsFrom(artifact.test))

\* Of a staged artifact only: the model gives the predictions of the winner once more.
ModelConsistent(artifact, config, validation, test) ==
    LET winner == artifact.winner
    IN /\ artifact.validation[winner] = PredictionsOf(validation, winner, config.threshold)
       /\ artifact.test = PredictionsOf(test, winner, config.threshold)
=============================================================================
