--------------------------- MODULE MCArtifactChain ---------------------------
(***************************************************************************)
(* Two datasets. The first one's chain is complete, the second one's has   *)
(* come as far as the store that is given says, or is not there at all.    *)
(* Or one directory of the first one's is damaged, or is another's.        *)
(***************************************************************************)
EXTENDS ArtifactChain, TLC

CONSTANTS d1, d2, c1, c2, x, y, env1, env2, none

Dataset(d) == [kind |-> "dataset", from |-> <<>>, config |-> <<d>>]
MCDatasets == {Dataset(d1), Dataset(d2)}

MCWinner(id) == IF Dataset(d1) \in Ancestry({id}) THEN c1 ELSE c2

\* Settings x and y; for a threshold policy the candidate, the grid and the reference.
MCConfigs(kind) ==
    CASE kind = "baseline" -> {<<x, env1>>, <<x, env2>>}
      [] kind = "retrieval" -> {<<x, env1>>}
      [] kind = "threshold_policy" -> {c1, c2} \X {x} \X {x, y}
      [] kind = "abstention_policy" -> {x}
      [] kind = "audit" -> {<<>>}
      [] OTHER -> {<<x>>}

Link(kind, from, config) == [kind |-> kind, from |-> from, config |-> config]

\* The ids of a complete chain, in the order of the commands.
Chain(d, candidate) ==
    LET audit == Link("audit", <<Dataset(d)>>, <<>>)
        labels == Link("label_policy", <<Dataset(d), audit>>, <<x>>)
        model == Link("model_dataset", <<Dataset(d), labels>>, <<x>>)
        baseline == Link("baseline", <<model>>, <<x, env1>>)
        threshold == Link("threshold_policy", <<baseline>>, <<candidate, x>>)
        abstention == Link("abstention_policy", <<threshold, baseline>>, <<threshold, x>>)
    IN <<Dataset(d), audit, labels, model, baseline, threshold,
         Link("retrieval", <<model>>, <<x, env1>>), abstention>>

\* The configuration in an artifact has the reference, which its id does not have.
Stored(id) ==
    [id |-> id, from |-> id.from, intact |-> TRUE, built_by |-> none,
     config |-> IF id.kind = "threshold_policy" THEN Append(id.config, x) ELSE id.config]

First == Chain(d1, c1)
Healthy(n) == [id \in ToSet(First) \cup ToSet(SubSeq(Chain(d2, c2), 1, n)) |-> Stored(id)]

\* The k-th directory of the first chain has a file that is not the one of its manifest,
\* or is a copy of the second one's, or that with the id it is found under.
Unsound(k) ==
    LET other == Stored(Chain(d2, c2)[k])
        put(artifact) == [Healthy(0) EXCEPT ![First[k]] = artifact]
    IN {put([Stored(First[k]) EXCEPT !.intact = FALSE]), put(other),
        put([other EXCEPT !.id = First[k]])}

MCGiven == {Healthy(n) : n \in {0, 3, 8}} \cup UNION {Unsound(k) : k \in DOMAIN First}

\* Which of the two commands does what makes no difference.
Symmetry == Permutations(Commands)
=============================================================================
