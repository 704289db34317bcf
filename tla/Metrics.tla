------------------------------ MODULE Metrics ------------------------------
(***************************************************************************)
(* The metrics every selection is made by (src/repotriage/baseline/        *)
(* evaluator.py). Targets, predictions and scores are matrices: a sequence *)
(* of rows, one per record, of sequences, one entry per label. A score is  *)
(* a multiple of 1/Unit and a threshold [bp, den] is bp / den. A metric is *)
(* a multiple of 1/Scale, with Scale a common multiple of the denominators *)
(* that occur, so it is exact; "undefined" (None) is below every value, as *)
(* the rankings of the program take it.                                    *)
(***************************************************************************)
EXTENDS Integers, Sequences, FiniteSets, SequencesExt, FiniteSetsExt

CONSTANTS
    Scale,  \* what the metric 1.0 is represented by
    Unit    \* what the score 1.0 is represented by

ASSUME MetricsAssumption == Scale \in Nat \ {0} /\ Unit \in Nat \ {0}

Undefined == -1

Ratio(n, d) == IF d = 0 THEN Undefined ELSE (Scale * n) \div d
Bit(condition) == IF condition THEN 1 ELSE 0

\* sum()
Total(values) ==
    LET upTo[n \in 0..Len(values)] == IF n = 0 THEN 0 ELSE upTo[n - 1] + values[n]
    IN upTo[Len(values)]

Harmonic(p, r) ==
    IF p = Undefined \/ r = Undefined THEN Undefined
    ELSE IF p + r > 0 THEN (2 * p * r) \div (p + r) ELSE 0

\* average_precision_score: over the positives, the precision at the positive's score.
AveragePrecision(positive, score) ==
    LET above(i) == {j \in DOMAIN score : score[j] >= score[i]}
    IN IF positive = {} THEN Undefined
       ELSE Total([i \in DOMAIN score |->
                      IF i \in positive THEN Ratio(Cardinality(above(i) \cap positive),
                                                   Cardinality(above(i)))
                      ELSE 0])
                \div Cardinality(positive)

PerLabel(true, pred, score, label) ==
    LET rows == DOMAIN true
        positive == {i \in rows : true[i][label] = 1}
        predicted == {i \in rows : pred[i][label] = 1}
        tp == Cardinality(positive \cap predicted)
        precision == Ratio(tp, Cardinality(predicted))
        recall == Ratio(tp, Cardinality(positive))
    IN [support |-> Cardinality(positive), predicted |-> Cardinality(predicted),
        tp |-> tp, fp |-> Cardinality(predicted \ positive),
        fn |-> Cardinality(positive \ predicted),
        tn |-> Cardinality(rows \ (positive \cup predicted)),
        precision |-> precision, recall |-> recall, f1 |-> Harmonic(precision, recall),
        ap |-> IF score = <<>> THEN Undefined
               ELSE AveragePrecision(positive, [i \in rows |-> score[i][label]])]

Mean(values) == IF values = <<>> THEN Undefined ELSE Total(values) \div Len(values)

ZeroFilled(values) == [k \in DOMAIN values |-> IF values[k] = Undefined THEN 0 ELSE values[k]]

MacroDefinedOnly(values) ==
    LET defined == {k \in DOMAIN values : values[k] # Undefined}
    IN IF defined = {} THEN Undefined ELSE Total(ZeroFilled(values)) \div Cardinality(defined)

\* Mutant: a label whose value is undefined is left out of the macro average.
MacroOverDefined(values) == MacroDefinedOnly(values)

\* The selections average over every label, an undefined value counting as zero.
MacroZeroFilled(values) == Mean(ZeroFilled(values))

\* Two empty rows agree; an empty and a nonempty one have nothing in common.
SamplesF1(true, pred) ==
    LET common(i) == Total([l \in DOMAIN true[i] |-> true[i][l] * pred[i][l]])
        all(i) == Total([l \in DOMAIN true[i] |-> true[i][l] + pred[i][l]])
    IN Mean([i \in DOMAIN true |-> IF all(i) = 0 THEN Scale ELSE Ratio(2 * common(i), all(i))])

\* AggregateMetrics: what the labels' metrics come to.
Aggregate(true, pred, perLabel) ==
    LET labels == DOMAIN perLabel
        tp == Total([l \in labels |-> perLabel[l].tp])
        p == Ratio(tp, Total([l \in labels |-> perLabel[l].tp + perLabel[l].fp]))
        r == Ratio(tp, Total([l \in labels |-> perLabel[l].tp + perLabel[l].fn]))
        cells == (DOMAIN true) \X labels
        ones(matrix, i) == Total([l \in labels |-> matrix[i][l]])
    IN [perLabel |-> perLabel,
        microPrecision |-> p, microRecall |-> r,
        microF1 |-> IF p = Undefined \/ r = Undefined \/ p + r = 0 THEN Undefined
                    ELSE Harmonic(p, r),
        macroPrecision |-> MacroZeroFilled([l \in labels |-> perLabel[l].precision]),
        macroRecall |-> MacroZeroFilled([l \in labels |-> perLabel[l].recall]),
        macroF1 |-> MacroZeroFilled([l \in labels |-> perLabel[l].f1]),
        macroF1Defined |-> MacroDefinedOnly([l \in labels |-> perLabel[l].f1]),
        macroAP |-> MacroDefinedOnly([l \in labels |-> perLabel[l].ap]),
        samplesF1 |-> SamplesF1(true, pred),
        subset |-> Ratio(Cardinality({i \in DOMAIN true : true[i] = pred[i]}), Len(true)),
        hamming |-> Ratio(Cardinality({c \in cells : true[c[1]][c[2]] # pred[c[1]][c[2]]}),
                          Cardinality(cells)),
        trueCardinality |-> Mean([i \in DOMAIN true |-> Scale * ones(true, i)]),
        predictedCardinality |-> Mean([i \in DOMAIN pred |-> Scale * ones(pred, i)]),
        nothing |-> Ratio(Cardinality({i \in DOMAIN pred : ones(pred, i) = 0}), Len(pred))]

SplitMetrics(true, pred, score) ==
    Aggregate(true, pred, [l \in DOMAIN true[1] |-> PerLabel(true, pred, score, l)])

\* The threshold itself is a positive decision.
Reaches(score, threshold) == score * threshold.den >= threshold.bp * Unit

\* Mutant: a score has to be above the threshold.
ThresholdedAbove(score, threshold) ==
    [i \in DOMAIN score |-> [l \in DOMAIN score[i] |->
        Bit(score[i][l] * threshold.den > threshold.bp * Unit)]]

Thresholded(score, threshold) ==
    [i \in DOMAIN score |-> [l \in DOMAIN score[i] |-> Bit(Reaches(score[i][l], threshold))]]
=============================================================================
