------------------------ MODULE AbstentionSelection ------------------------
(***************************************************************************)
(* When to give no answer (src/repotriage/abstention_policy/). An issue's  *)
(* confidence is the best score among its predicted labels; below the      *)
(* abstention threshold, or without a predicted label, the issue is not    *)
(* handled. A configuration is [start, stop, step, den, minimum], start    *)
(* being Undefined for "the classification threshold" and minimum a        *)
(* coverage. A policy is [classification, grid, minimum, selected, sweep,  *)
(* validation, test, bins, comparison].                                    *)
(***************************************************************************)
EXTENDS ThresholdSelection

Confidence(score, pred) ==
    LET predicted == {score[l] : l \in {k \in DOMAIN pred : pred[k] = 1}}
    IN IF predicted = {} THEN Undefined ELSE Max(predicted)

\* [pred, score, true, confidence] of every record at the classification threshold.
ConfidenceTable(records, classification) ==
    LET score == [i \in DOMAIN records |-> records[i].score]
        pred == Thresholded(score, classification)
    IN [i \in DOMAIN records |->
           [true |-> records[i].true, score |-> score[i], pred |-> pred[i],
            confidence |-> Confidence(score[i], pred[i])]]

HandledRows(table, abstention) ==
    {i \in DOMAIN table : table[i].confidence # Undefined
                          /\ Reaches(table[i].confidence, abstention)}

ForcedRows(table) == {i \in DOMAIN table : table[i].confidence = Undefined}

\* Those rows of a table, in its order.
RowsOf(table, rows) ==
    LET upTo[n \in 0..Len(table)] ==
            IF n = 0 THEN <<>>
            ELSE IF n \in rows THEN Append(upTo[n - 1], table[n]) ELSE upTo[n - 1]
    IN upTo[Len(table)]

HandledFrom(m) ==
    [subset |-> m.subset, samplesF1 |-> m.samplesF1,
     micro |-> <<m.microPrecision, m.microRecall, m.microF1>>,
     macro |-> <<m.macroPrecision, m.macroRecall, m.macroF1>>,
     cardinality |-> <<m.predictedCardinality, m.trueCardinality>>,
     fp |-> Total([l \in DOMAIN m.perLabel |-> m.perLabel[l].fp]),
     fn |-> Total([l \in DOMAIN m.perLabel |-> m.perLabel[l].fn])]

HandledMetrics(table, rows) ==
    IF rows = {} THEN [subset |-> Undefined, samplesF1 |-> Undefined]
    ELSE HandledFrom(MetricsFrom(RowsOf(table, rows)))

AbstentionAt(table, abstention) ==
    LET rows == HandledRows(table, abstention)
    IN [total |-> Len(table), handled |-> Cardinality(rows),
        abstained |-> Len(table) - Cardinality(rows), forced |-> Cardinality(ForcedRows(table)),
        coverage |-> Ratio(Cardinality(rows), Len(table)), metrics |-> HandledMetrics(table, rows)]

AbstentionSweep(table, grid) == [bp \in GridPoints(grid) |-> AbstentionAt(table, Threshold(bp, grid))]

ResolveGrid(config, classification) ==
    [start |-> IF config.start = Undefined THEN classification ELSE config.start,
     stop |-> config.stop, step |-> config.step, den |-> config.den]

ValidGrid(grid) == grid.stop >= grid.start /\ (grid.stop - grid.start) % grid.step = 0

Eligible(sweep, minimum) == {bp \in DOMAIN sweep : sweep[bp].coverage >= minimum}

SelectAbstention(sweep, minimum) ==
    BestOf({<<bp, <<sweep[bp].metrics.subset, sweep[bp].metrics.samplesF1, sweep[bp].coverage,
                    -bp>>>> : bp \in Eligible(sweep, minimum)})

(***************************************************************************)
(* Diagnostics by confidence: bounds in hundredths, the last one included. *)
(***************************************************************************)

BinBounds == << <<39, 50>>, <<50, 60>>, <<60, 70>>, <<70, 80>>, <<80, 90>>, <<90, 100>> >>

\* Mutant: the upper bound of every bin belongs to it.
InClosedBin(confidence, k) ==
    BinBounds[k][1] * Unit =< confidence * 100 /\ confidence * 100 =< BinBounds[k][2] * Unit

InBin(confidence, k) ==
    /\ BinBounds[k][1] * Unit =< confidence * 100
    /\ \/ confidence * 100 < BinBounds[k][2] * Unit
       \/ k = Len(BinBounds) /\ confidence * 100 = BinBounds[k][2] * Unit

ConfidenceBins(table) ==
    [bins |-> [k \in DOMAIN BinBounds |->
        LET rows == {i \in DOMAIN table : table[i].confidence # Undefined
                                          /\ InBin(table[i].confidence, k)}
        IN [count |-> Cardinality(rows), fraction |-> Ratio(Cardinality(rows), Len(table)),
            metrics |-> HandledMetrics(table, rows)]],
     unpredicted |-> Cardinality(ForcedRows(table))]

(***************************************************************************)
(* The artifact.                                                           *)
(***************************************************************************)

\* Everything predicted against what is handled at the abstention threshold.
Arms(table, at) ==
    [full |-> [count |-> Len(table) - at.forced,
               coverage |-> Ratio(Len(table) - at.forced, Len(table)),
               metrics |-> HandledMetrics(table, DOMAIN table)],
     selected |-> [count |-> at.handled, coverage |-> at.coverage, metrics |-> at.metrics]]

\* The classification threshold is a number of the abstention grid's own units.
AbstentionTables(baseline, classification, grid) ==
    [validation |-> ConfidenceTable(baseline.validation[baseline.winner],
                                    Threshold(classification, grid)),
     test |-> ConfidenceTable(baseline.test, Threshold(classification, grid))]

\* What both splits come to: [sweep, selected, validation, test, bins, comparison].
EvaluatedAbstention(tables, sweep, selected, at) ==
    [sweep |-> sweep, selected |-> selected, validation |-> at["validation"], test |-> at["test"],
     bins |-> [split \in DOMAIN tables |-> ConfidenceBins(tables[split])],
     comparison |-> [split \in DOMAIN tables |-> Arms(tables[split], at[split])]]

\* Both splits are evaluated at the frozen abstention threshold.
FrozenAbstention(tables, grid, sweep, selected) ==
    EvaluatedAbstention(tables, sweep, selected,
        [split \in DOMAIN tables |-> AbstentionAt(tables[split], Threshold(selected, grid))])

SelectedAbstention(tables, grid, minimum, sweep) ==
    FrozenAbstention(tables, grid, sweep, SelectAbstention(sweep, minimum))

SweptAbstention(tables, grid, minimum) ==
    SelectedAbstention(tables, grid, minimum, AbstentionSweep(tables.validation, grid))

AbstentionPolicyOf(baseline, classification, grid, minimum) ==
    LET e == SweptAbstention(AbstentionTables(baseline, classification, grid), grid, minimum)
    IN [classification |-> classification, grid |-> grid, minimum |-> minimum,
        sweep |-> e.sweep, selected |-> e.selected, validation |-> e.validation, test |-> e.test,
        bins |-> e.bins, comparison |-> e.comparison]

\* No row of the sweep may cover enough: AbstentionPolicyBuildError.
SomeEligible(baseline, classification, grid, minimum) ==
    LET table == AbstentionTables(baseline, classification, grid).validation
    IN Eligible(AbstentionSweep(table, grid), minimum) # {}

AbstentionIntact(policy) ==
    LET arm == policy.comparison["validation"].selected
    IN /\ policy.selected \in DOMAIN policy.sweep
       /\ Cardinality(DOMAIN policy.sweep) = Cardinality(GridPoints(policy.grid))
       /\ policy.sweep[policy.selected] = policy.validation
       /\ arm.count = policy.validation.handled /\ arm.coverage = policy.validation.coverage
       /\ Undefined \in {arm.metrics.subset, policy.validation.metrics.subset}
             \/ arm.metrics.subset = policy.validation.metrics.subset

SameAbstention(policy, again) ==
    /\ policy.selected = again.selected
    /\ DOMAIN policy.sweep = DOMAIN again.sweep
    /\ \A bp \in DOMAIN policy.sweep : policy.sweep[bp].metrics = again.sweep[bp].metrics
    /\ policy.validation = again.validation /\ policy.test = again.test
    /\ policy.bins = again.bins

\* Everything but the comparison is computed again.
AbstentionAgainstInputs(policy, baseline, classification) ==
    /\ AbstentionIntact(policy)
    /\ policy.classification = classification
    /\ SomeEligible(baseline, policy.classification, policy.grid, policy.minimum)
    /\ SameAbstention(policy, AbstentionPolicyOf(baseline, policy.classification,
                                                 policy.grid, policy.minimum))
=============================================================================
