------------------------------ MODULE Training ------------------------------
(***************************************************************************)
(* From a model-ready dataset to its two policies, and what the server     *)
(* does with them: train-baseline, build-threshold-policy and              *)
(* build-abstention-policy in a row, then answers. What each command       *)
(* selects and computes is in BaselineSelection, ThresholdSelection and    *)
(* AbstentionSelection, an answer in IssueDecision. Training itself is     *)
(* external: a candidate's model is the scores it gives for the texts of   *)
(* the validation and the test split, and any scores are possible.         *)
(***************************************************************************)
EXTENDS IssueDecision

CONSTANTS
    BaselineConfigs,    \* configurations of train-baseline
    Validations,        \* the validation split with every candidate's scores
    Tests,              \* the same for the test split
    ThresholdConfigs(_),    \* configurations of build-threshold-policy, given the winner
    AbstentionConfigs   \* configurations of build-abstention-policy

\* A split has records and labels, a target and every candidate's score for each of them,
\* and Scale is fine enough to count in.
Samples(split) ==
    LET records == Len(split.targets)
        labels == Len(split.targets[1])
        Matrix(S) == [1..records -> [1..labels -> S]]
    IN /\ {records, labels} \subseteq Nat \ {0} /\ records * labels =< Scale
       /\ split.targets \in Matrix({0, 1})
       /\ \A id \in DOMAIN split.scores : split.scores[id] \in Matrix(0..Unit)

Grids == [start : Int, stop : Int, step : Nat \ {0}, den : Nat \ {0}]

ASSUME TrainingAssumption ==
    /\ \A split \in Validations \cup Tests : Samples(split)
    /\ \A v \in Validations, t \in Tests : Len(v.targets[1]) = Len(t.targets[1])
    \* build-model-dataset writes no label without a positive in the split
    /\ \A v \in Validations : \A l \in DOMAIN v.targets[1] :
          \E i \in DOMAIN v.targets : v.targets[i][l] = 1
    /\ \A c \in BaselineConfigs :
          /\ c.candidates \in Seq([id : Int, ngram : Int, weighted : BOOLEAN])
          /\ c.candidates # <<>> /\ {c.threshold.bp, c.threshold.den} \subseteq Int
          /\ \A split \in Validations \cup Tests : Ids(c) \subseteq DOMAIN split.scores
    /\ \A c \in BaselineConfigs : \A id \in Ids(c) : \A t \in ThresholdConfigs(id) :
          t.grid \in Grids /\ t.reference \in Int
    /\ \A c \in AbstentionConfigs :
          /\ {c.start, c.stop, c.minimum} \subseteq Int
          /\ {c.step, c.den} \subseteq Nat \ {0}

VARIABLES
    stage,      \* how far the commands have come
    config,     \* the baseline configuration
    validation, \* the two splits
    test,
    baseline,   \* the baseline artifact
    policy,     \* the threshold policy
    abstention, \* the abstention policy
    answers     \* what the server answers for the texts of the two splits

vars == <<stage, config, validation, test, baseline, policy, abstention, answers>>
inputs == <<config, validation, test>>

Nothing == <<>>

Init ==
    /\ stage = "start"
    /\ config \in BaselineConfigs /\ validation \in Validations /\ test \in Tests
    /\ baseline = Nothing /\ policy = Nothing /\ abstention = Nothing
    /\ answers = Nothing

TrainBaseline ==
    /\ stage = "start"
    /\ baseline' = BaselineOf(config, CandidateSelection(config, validation), test)
    /\ stage' = "baseline staged"
    /\ UNCHANGED <<inputs, policy, abstention, answers>>

ValidateBaseline ==
    /\ stage = "baseline staged"
    /\ stage' = IF /\ BaselineAgainstInputs(baseline, config, validation, test)
                   /\ ModelConsistent(baseline, config, validation, test)
                THEN "trained" ELSE "baseline refused"
    /\ UNCHANGED <<inputs, baseline, policy, abstention, answers>>

BuildThresholdPolicy ==
    /\ stage = "trained"
    /\ \E c \in ThresholdConfigs(baseline.winner) :
          IF Buildable(baseline, c)
          THEN policy' = ThresholdPolicyOf(baseline, c) /\ stage' = "threshold staged"
          ELSE stage' = "no threshold policy" /\ UNCHANGED policy
    /\ UNCHANGED <<inputs, baseline, abstention, answers>>

ValidateThreshold ==
    /\ stage = "threshold staged"
    /\ stage' = IF AgainstBaseline(policy, baseline) THEN "threshold selected"
                ELSE "threshold refused"
    /\ UNCHANGED <<inputs, baseline, policy, abstention, answers>>

BuildAbstentionPolicy ==
    /\ stage = "threshold selected"
    /\ \E c \in AbstentionConfigs :
          LET grid == ResolveGrid(c, policy.selected)
          IN IF ValidGrid(grid) /\ SomeEligible(baseline, policy.selected, grid, c.minimum)
             THEN /\ abstention' = AbstentionPolicyOf(baseline, policy.selected, grid, c.minimum)
                  /\ stage' = "abstention staged"
             ELSE stage' = "no abstention policy" /\ UNCHANGED abstention
    /\ UNCHANGED <<inputs, baseline, policy, answers>>

ValidateAbstention ==
    /\ stage = "abstention staged"
    /\ stage' = IF AbstentionAgainstInputs(abstention, baseline, policy.selected) THEN "complete"
                ELSE "abstention refused"
    /\ UNCHANGED <<inputs, baseline, policy, abstention, answers>>

(***************************************************************************)
(* One thing in the last artifact is another than was published, every     *)
(* hash agreeing, and the command runs once more.                          *)
(***************************************************************************)

AlteredBaselines ==
    UNION ({{[baseline EXCEPT !.winner = id, !.results.winner = id],
             [baseline EXCEPT !.results.metrics[id].macroF1 = 0],
             [baseline EXCEPT !.validation[id][1].score[1] = Unit]} : id \in Ids(config)}
      \cup {{[baseline EXCEPT !.test[1].pred[1] = 1 - @],
             [baseline EXCEPT !.testMetrics.macroF1 = Scale]}})

AlteredPolicies ==
    {[policy EXCEPT !.selected = bp, !.validation = policy.sweep[bp]] :
        bp \in DOMAIN policy.sweep \ {policy.selected}}
      \cup {[policy EXCEPT !.validation = policy.test], [policy EXCEPT !.test.macroF1 = Scale],
            [policy EXCEPT !.comparison.test.selected = policy.validation]}

AlteredAbstentions ==
    {[abstention EXCEPT !.selected = bp, !.validation = abstention.sweep[bp]] :
        bp \in DOMAIN abstention.sweep \ {abstention.selected}}
      \cup {[abstention EXCEPT !.test = abstention.validation],
            [abstention EXCEPT !.classification = @ + 1],
            [abstention EXCEPT !.bins["test"] = abstention.bins["validation"]]}

Alter ==
    /\ \/ stage = "trained" /\ baseline' \in AlteredBaselines /\ UNCHANGED <<policy, abstention>>
       \/ stage = "threshold selected" /\ policy' \in AlteredPolicies
          /\ UNCHANGED <<baseline, abstention>>
       \/ stage = "complete" /\ abstention' \in AlteredAbstentions /\ UNCHANGED <<baseline, policy>>
    /\ stage' = CASE stage = "trained" -> "baseline altered"
                  [] stage = "threshold selected" -> "threshold altered"
                  [] stage = "complete" -> "abstention altered"
    /\ UNCHANGED <<inputs, answers>>

Reuse ==
    /\ \/ /\ stage = "baseline altered"
          /\ BaselineAgainstInputs(baseline, config, validation, test)
          /\ stage' = "baseline reused"
       \/ /\ stage = "threshold altered" /\ AgainstBaseline(policy, baseline)
          /\ stage' = "threshold reused"
       \/ /\ stage = "abstention altered"
          /\ AbstentionAgainstInputs(abstention, baseline, policy.selected)
          /\ stage' = "abstention reused"
    /\ UNCHANGED <<inputs, baseline, policy, abstention, answers>>

\* The server is started with the three artifacts, as they were published or altered,
\* and asked for the issues of both splits.
Serve ==
    /\ stage \in {"complete", "abstention altered"}
    /\ Loadable(baseline, policy, abstention)
    /\ LET bundle == LoadThresholds(baseline, policy, abstention)
       IN answers' = [split \in {"validation", "test"} |->
                        LET score == (IF split = "test" THEN test ELSE validation).scores[bundle.model]
                        IN [i \in DOMAIN score |-> InferIssue(bundle, score[i])]]
    /\ stage' = "served"
    /\ UNCHANGED <<inputs, baseline, policy, abstention>>

Next ==
    \/ TrainBaseline \/ ValidateBaseline
    \/ BuildThresholdPolicy \/ ValidateThreshold
    \/ BuildAbstentionPolicy \/ ValidateAbstention
    \/ Alter \/ Reuse \/ Serve

Spec == Init /\ [][Next]_vars

(***************************************************************************)
(* Properties.                                                             *)
(***************************************************************************)

\* What a command has just made its own validation refuses in one case: two candidates
\* with the same metrics, of which the selection took the simpler one and the audit,
\* which knows nothing of their complexity, the one with the greater id.
RefusedOnlyOnTies ==
    /\ stage \notin {"threshold refused", "abstention refused"}
    /\ stage = "baseline refused" =>
          \E id \in Ids(config) :
              LET metrics == baseline.results.metrics
                  other == CandidateOf(config, id)
                  winner == CandidateOf(config, baseline.winner)
              IN /\ MetricKey(metrics[id]) = MetricKey(metrics[baseline.winner])
                 /\ id > winner.id
                 /\ other.ngram > winner.ngram \/ (other.weighted /\ ~winner.weighted)

\* "the artifact derives from the exact inputs": what train-baseline has just made it
\* does not refuse, whichever of equally good candidates it selected.
StagedIsAccepted == stage # "baseline refused"

\* A macro F1 of 1.0 means no mistake on any label: a label that is never predicted
\* is not left out of the average that selects.
PerfectMeansNoMistake ==
    stage = "trained" =>
        \A id \in Ids(config) :
            (baseline.results.metrics[id].macroF1 = Scale)
                = (baseline.results.metrics[id].hamming = 0)

\* The abstention policy stands on the classification of the threshold policy (if both
\* grids have one unit): over all issues its metrics are the threshold policy's. What it
\* handles is a part of what is predicted, with no error that is not there without
\* abstaining, it covers what it has to, and from the lowest bound on every predicted
\* issue is in exactly one confidence bin.
AbstentionOnlyDrops ==
    stage = "complete" =>
        \A split \in {"validation", "test"} :
            LET at == abstention[split]
                full == abstention.comparison[split].full
                bins == abstention.bins[split]
                binned == Total([k \in DOMAIN bins.bins |-> bins.bins[k].count])
            IN /\ abstention.grid.den = policy.config.grid.den =>
                     full.metrics.macro[3] = policy[split].macroF1
               /\ at.handled =< full.count
               /\ at.handled > 0 => at.metrics.fp =< full.metrics.fp
                                    /\ at.metrics.fn =< full.metrics.fn
               /\ split = "validation" => at.coverage >= abstention.minimum
               /\ 100 * abstention.classification >= 39 * abstention.grid.den =>
                     binned + bins.unpredicted = at.total

\* Whatever was changed in an artifact that is used again, its decision is the one the
\* predictions beside it imply: the winner no candidate's metrics beat, the threshold and
\* the abstention threshold the rules select, and the metrics they are reported with.
ReusedDecisionsFollow ==
    /\ stage = "baseline reused" =>
          \A id \in Ids(config) :
              ~RanksBefore(MetricKey(MetricsFrom(baseline.validation[id])),
                           MetricKey(MetricsFrom(baseline.validation[baseline.winner])))
    /\ stage = "threshold reused" =>
          LET again == ThresholdPolicyOf(baseline, policy.config)
          IN policy.selected = again.selected /\ policy.comparison = again.comparison
    /\ stage = "abstention reused" =>
          /\ abstention.classification = policy.selected
          /\ abstention.test = AbstentionPolicyOf(baseline, policy.selected, abstention.grid,
                                                  abstention.minimum).test

\* The server does what was selected and reported (if both grids count in the server's
\* units): the labels it gives for the validation split have the macro F1 the threshold
\* policy was chosen for, it abstains where the abstention policy does, as often as that
\* reports, and no answer of its own fails its validation.
ServedAsSelected ==
    stage = "served" =>
        LET tables == AbstentionTables(baseline, policy.selected, abstention.grid)
            labelled == [i \in DOMAIN answers["validation"] |->
                [true |-> validation.targets[i], score |-> answers["validation"][i].score,
                 pred |-> [l \in DOMAIN validation.targets[i] |->
                              Bit(l \in ToSet(answers["validation"][i].predicted))]]]
            kept(split) == {i \in DOMAIN answers[split] : ~answers[split][i].abstention.abstains}
        IN /\ \A split \in DOMAIN answers : \A i \in DOMAIN answers[split] :
                 ResponseValid(LoadThresholds(baseline, policy, abstention), answers[split][i])
           /\ policy.config.grid.den = ServedUnit =>
                 MetricsFrom(labelled).macroF1 = policy.validation.macroF1
           /\ {policy.config.grid.den, abstention.grid.den} = {ServedUnit} =>
                 /\ Cardinality(kept("validation")) = abstention.validation.handled
                 /\ \A split \in DOMAIN answers :
                       kept(split) = HandledRows(tables[split],
                                         Threshold(abstention.selected, abstention.grid))
=============================================================================
