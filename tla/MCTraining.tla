----------------------------- MODULE MCTraining -----------------------------
(***************************************************************************)
(* Two candidates, two labels and two records in a split. Candidate 1      *)
(* gives every combination of three scores for the first record (3 is      *)
(* below the lowest confidence bin, 5 and 9 are bounds of bins) and of two *)
(* for the second; candidate 2 gives one.                                  *)
(***************************************************************************)
EXTENDS Training

CandidateTable ==
    {<<[id |-> 1, ngram |-> c[1], weighted |-> c[2]], [id |-> 2, ngram |-> 2, weighted |-> TRUE]>> :
         c \in {<<1, TRUE>>, <<2, FALSE>>}}

MCBaselineConfigs ==
    {[candidates |-> c, threshold |-> [bp |-> 5, den |-> 10]] : c \in CandidateTable}

Targets == { << <<1, 0>>, <<0, 1>> >>, << <<1, 1>>, <<0, 0>> >> }
Score == {3, 5, 9}
Rows == {<<first, second>> : first \in [1..2 -> Score], second \in [1..2 -> {3, 9}]}
Other == << <<9, 3>>, <<5, 5>> >>

MCValidations == {[targets |-> t, scores |-> <<s, Other>>] : t \in Targets, s \in Rows}
MCTests ==
    {[targets |-> << <<1, 0>>, <<1, 1>> >>, scores |-> << << <<9, 5>>, <<3, 9>> >>, Other>>]}

MCThresholdConfigs(winner) ==
    {[candidate |-> winner, grid |-> [start |-> 3, stop |-> 9, step |-> 2, den |-> 10],
      reference |-> r] : r \in {4, 5}}

\* The third one's grid counts in twentieths, the threshold's in tenths.
MCAbstentionConfigs ==
    {[start |-> c[1], stop |-> c[2], step |-> 2, den |-> c[3], minimum |-> c[4]] :
         c \in {<<Undefined, 9, 10, Scale \div 2>>, <<5, 9, 10, Scale>>, <<6, 18, 20, 0>>}}
=============================================================================
