------------------------- MODULE ThresholdSelection -------------------------
(***************************************************************************)
(* One decision threshold for the selected candidate (src/repotriage/      *)
(* threshold_policy/). A configuration is [candidate, grid, reference], a  *)
(* grid [start, stop, step, den]; its thresholds are multiples of 1/den.   *)
(* A policy is [config, selected, sweep, validation, test, comparison],    *)
(* its metrics computed from the predictions of the baseline artifact.     *)
(***************************************************************************)
EXTENDS BaselineSelection

GridPoints(grid) == {bp \in grid.start..grid.stop : (bp - grid.start) % grid.step = 0}
Threshold(bp, grid) == [bp |-> bp, den |-> grid.den]
Distance(m, n) == IF m < n THEN n - m ELSE m - n

\* The names of the labels are found in the records that have them.
Resolvable(records) ==
    \A l \in DOMAIN records[1].true : \E i \in DOMAIN records : records[i].true[l] = 1

MetricsAt(records, threshold) ==
    LET score == [i \in DOMAIN records |-> records[i].score]
    IN SplitMetrics([i \in DOMAIN records |-> records[i].true], Thresholded(score, threshold), score)

Sweep(records, grid) == [bp \in GridPoints(grid) |-> MetricsAt(records, Threshold(bp, grid))]

\* Of equally good thresholds the one nearest to the reference, then the greater.
SelectThreshold(sweep, reference) ==
    BestOf({<<bp, <<sweep[bp].macroF1, sweep[bp].microF1, -Distance(bp, reference), bp>>>> :
               bp \in DOMAIN sweep})

Comparison(selected, reference, validation, test) ==
    [selected |-> selected, reference |-> reference,
     validation |-> [reference |-> validation[reference], selected |-> validation[selected]],
     test |-> [reference |-> test[reference], selected |-> test[selected]]]

EvaluatedPolicy(config, selected, sweep, test) ==
    [config |-> config, selected |-> selected, sweep |-> sweep,
     validation |-> sweep[selected], test |-> test[selected],
     comparison |-> Comparison(selected, config.reference, sweep, test)]

\* The test split is evaluated at the frozen threshold, and at the reference to compare.
FrozenPolicy(baseline, config, selected, sweep) ==
    EvaluatedPolicy(config, selected, sweep,
        [bp \in {selected, config.reference} |->
            MetricsAt(baseline.test, Threshold(bp, config.grid))])

SelectedPolicy(baseline, config, sweep) ==
    FrozenPolicy(baseline, config, SelectThreshold(sweep, config.reference), sweep)

ThresholdPolicyOf(baseline, config) ==
    SelectedPolicy(baseline, config, Sweep(baseline.validation[config.candidate], config.grid))

\* A reference off the grid is noticed once the test split was evaluated.
Buildable(baseline, config) ==
    /\ config.candidate = baseline.winner
    /\ Resolvable(baseline.validation[config.candidate]) /\ Resolvable(baseline.test)
    /\ config.reference \in GridPoints(config.grid)

ComparedMetrics(m) ==
    <<m.macroF1, m.microF1, m.macroPrecision, m.macroRecall, m.subset, m.hamming>>

ThresholdIntact(policy) ==
    /\ policy.selected \in DOMAIN policy.sweep
    /\ Cardinality(DOMAIN policy.sweep) = Cardinality(GridPoints(policy.config.grid))
    /\ ComparedMetrics(policy.sweep[policy.selected]) = ComparedMetrics(policy.validation)

SamePolicy(policy, again) ==
    /\ policy.selected = again.selected
    /\ ComparedMetrics(policy.validation) = ComparedMetrics(again.validation)
    /\ ComparedMetrics(policy.test) = ComparedMetrics(again.test)
    /\ policy.config.reference \in DOMAIN again.sweep
    /\ policy.comparison = again.comparison

\* Everything is computed again, from the configuration in the artifact.
AgainstBaseline(policy, baseline) ==
    /\ ThresholdIntact(policy)
    /\ policy.config.candidate = baseline.winner
    /\ SamePolicy(policy, ThresholdPolicyOf(baseline, policy.config))
=============================================================================
