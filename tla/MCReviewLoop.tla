---------------------------- MODULE MCReviewLoop ----------------------------
(* Two issues, two labels, two bundles: a prediction whose best label comes  *)
(* second in the label order, one with a single label and one with none.     *)
EXTENDS ReviewLoop, TLC

CONSTANTS i1, i2, bug, docs

MCIssues == {i1, i2}

MCLabelOrder == << <<bug, docs>>, <<bug, docs>> >>

MCPredictions == << (i1 :> <<docs, bug>> @@ i2 :> <<bug>>),
                    (i1 :> <<docs>> @@ i2 :> <<>>) >>
=============================================================================
