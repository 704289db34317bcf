------------------------------ MODULE Curation ------------------------------
(***************************************************************************)
(* From a normalized dataset to a model-ready one and its index of similar *)
(* issues: audit-dataset, build-label-policy, build-model-dataset and      *)
(* build-retrieval-baseline in a row, over every small dataset and         *)
(* configuration. What each command computes is in DatasetAudit,           *)
(* LabelPolicy, ModelDataset and RetrievalIndex; the directories it        *)
(* writes, and everything that can happen to them meanwhile, is in         *)
(* ArtifactChain.                                                          *)
(***************************************************************************)
EXTENDS RetrievalIndex

CONSTANTS
    Datasets,       \* the normalized datasets: sequences of issues
    PolicyConfigs,  \* the label-policy configurations
    SplitConfigs,   \* the split configurations
    Similarities,   \* what the texts may have in common
    TopKs           \* the retrieval configurations

ASSUME CurationAssumption ==
    /\ \A d \in Datasets : d \in Seq(Issue) /\ \A i \in DOMAIN d : IsFiniteSet(d[i].labels)
    /\ \A c \in PolicyConfigs : /\ {"minTotal", "minMonths", "minRecent", "window"} \subseteq DOMAIN c
                                /\ {c.minTotal, c.minMonths, c.minRecent, c.window} \subseteq Nat \ {0}
                                /\ \A l \in DOMAIN c.entries : c.entries[l] \in Entry
    /\ \A c \in SplitConfigs : /\ {c.validation, c.test, c.threshold} \subseteq Int
                               /\ c.validation < c.test
                               /\ \A name \in SplitNames : c.minimum[name] \in Nat \ {0}
    /\ FallbackThreshold \in Int
    /\ \A t \in Similarities, d \in Datasets : \A q, n \in DOMAIN d : t[q][n] \in Int
    /\ TopKs \subseteq Nat

VARIABLES
    stage,      \* how far the commands have come
    issues,     \* the normalized dataset
    audit,      \* the audit document
    config,     \* the label-policy configuration
    policy,     \* the policy document
    split,      \* the split configuration
    artifact,   \* the model-ready dataset, staged or published
    texts,      \* how similar the issues' texts are
    topK,       \* the retrieval configuration
    retrieval   \* the retrieval baseline, staged or published

curated == <<issues, audit, config, policy, split, artifact>>
indexed == <<texts, topK, retrieval>>
vars == <<stage, issues, audit, config, policy, split, artifact, texts, topK, retrieval>>

Init ==
    /\ issues \in Datasets
    /\ stage = "normalized"
    /\ audit = None /\ config = None /\ policy = None /\ split = None /\ artifact = None
    /\ texts = None /\ topK = None /\ retrieval = None

\* There is nothing to audit in a dataset without issues.
AuditDataset ==
    /\ stage = "normalized"
    /\ IF issues = <<>> THEN stage' = "audit refused" /\ UNCHANGED audit
       ELSE audit' = AuditOf(issues) /\ stage' = "audited"
    /\ UNCHANGED <<issues, config, policy, split, artifact, indexed>>

BuildLabelPolicy ==
    /\ stage = "audited"
    /\ config' \in PolicyConfigs
    /\ LET built == PolicyOf(issues, config', audit)
       IN IF /\ UnknownLabels(config', audit) = {}
             /\ AgreesWithAudit(issues, audit)
             /\ \A k \in DOMAIN built.decisions : Selectable(built.decisions[k], config')
             /\ ConsistentPolicy(built)
          THEN policy' = built /\ stage' = "decided"
          ELSE stage' = "policy refused" /\ UNCHANGED policy
    /\ UNCHANGED <<issues, audit, split, artifact, indexed>>

BuildModelDataset ==
    /\ stage = "decided"
    /\ split' \in SplitConfigs
    /\ IF Transformable(issues, policy) /\ Supported(issues, policy, split')
       THEN artifact' = ArtifactOf(issues, policy, split') /\ stage' = "staged"
       ELSE stage' = "split refused" /\ UNCHANGED artifact
    /\ UNCHANGED <<issues, audit, config, policy, indexed>>

\* The staged artifact is validated like one found on disk, and published or thrown away.
ValidateStaged ==
    /\ stage = "staged"
    /\ stage' = IF AgainstInputs(artifact, issues, policy, split) THEN "published"
                ELSE "staged refused"
    /\ UNCHANGED <<curated, indexed>>

\* One thing in the directory is another than was published, every hash agreeing.
WithRecords(records) ==
    {[artifact EXCEPT !.records = records],
     [artifact EXCEPT !.records = records, !.written = Len(records),
                      !.report = SplitReport(records, artifact.labels, split)]}

Relabelled(record, labels) ==
    [record EXCEPT !.target = TargetVector(labels, artifact.labels),
                   !.selected = SelectedLabels(labels, artifact.labels)]

OtherRecords ==
    LET records == artifact.records
    IN {RemoveAt(records, k) : k \in DOMAIN records}
         \cup {[records EXCEPT ![k].split = name] : k \in DOMAIN records, name \in SplitNames}
         \cup {[records EXCEPT ![k] = Relabelled(@, labels)] :
                   k \in DOMAIN records, labels \in SUBSET ToSet(artifact.labels)}

OtherReports ==
    {[artifact.report EXCEPT !.global.assignments = @ + 1]}
      \cup {[artifact.report EXCEPT !.splits[name].allZero = @ + 1] : name \in SplitNames}
      \cup {[artifact.report EXCEPT !.splits[name].latest = None] : name \in SplitNames}

AlteredForms ==
    (UNION {WithRecords(records) : records \in OtherRecords})
      \cup {[artifact EXCEPT !.report = report] : report \in OtherReports}
      \cup {[artifact EXCEPT !.labels = Reverse(@)]}

Alter ==
    /\ stage = "published"
    /\ artifact' \in AlteredForms
    /\ stage' = "altered"
    /\ UNCHANGED <<issues, audit, config, policy, split, indexed>>

\* The same command once more: what is on disk is validated and used.
Reuse ==
    /\ stage \in {"published", "altered"}
    /\ stage' = IF AgainstInputs(artifact, issues, policy, split) THEN "reused"
                ELSE "reuse refused"
    /\ UNCHANGED <<curated, indexed>>

BuildRetrieval ==
    /\ stage = "published"
    /\ SplitOf(artifact.records, "train") # <<>>
    /\ texts' \in Similarities /\ topK' \in TopKs
    /\ retrieval' = RetrievalOf(artifact.records, topK', texts')
    /\ stage' = "index staged"
    /\ UNCHANGED curated

IndexAccepted == RetrievalAgainstModelDataset(retrieval, artifact.records, topK, texts)

ValidateRetrieval ==
    /\ stage = "index staged"
    /\ stage' = IF IndexAccepted /\ IndexConsistent(retrieval) THEN "index published"
                ELSE "index refused"
    /\ UNCHANGED <<curated, indexed>>

\* One thing in the directory of the index is another, every hash agreeing.
OtherNeighbors(neighbors) ==
    {Reverse(neighbors), [k \in DOMAIN neighbors |-> [neighbors[k] EXCEPT !.similarity = 0]]}
      \cup {[neighbors EXCEPT ![k].id = c.id] :
                k \in DOMAIN neighbors, c \in ToSet(retrieval.corpus)}

\* ... with a list of train issues that agrees: in another order, with one issue less,
\* one more or another in the place of one.
WithCorpus(rows) ==
    [retrieval EXCEPT !.corpus = rows, !.trainIds = [k \in DOMAIN rows |-> rows[k].id]]

OtherCorpora ==
    LET rows == retrieval.corpus
        strangers == {CorpusRecord(r) : r \in ToSet(artifact.records)}
    IN {Reverse(rows)} \cup {RemoveAt(rows, k) : k \in DOMAIN rows}
         \cup {Append(rows, row) : row \in strangers}
         \cup {[rows EXCEPT ![k] = row] : k \in DOMAIN rows, row \in strangers}

AlteredIndexes ==
    (UNION {{[retrieval EXCEPT !.neighbors[s][k].neighbors = other] :
                other \in OtherNeighbors(retrieval.neighbors[s][k].neighbors)} :
            s \in Queries, k \in DOMAIN retrieval.neighbors["validation"]
                             \cap DOMAIN retrieval.neighbors["test"]})
      \cup {[retrieval EXCEPT !.corpus = Reverse(@)], [retrieval EXCEPT !.matrix = Reverse(@)],
            [retrieval EXCEPT !.corpus = Reverse(@), !.trainIds = Reverse(@),
                              !.fitted = Reverse(@)],
            [retrieval EXCEPT !.neighbors = [s \in Queries |-> Reverse(@[s])]]}
      \cup {WithCorpus(rows) : rows \in OtherCorpora}
      \cup {[retrieval EXCEPT !.metrics[s].scored = @ + 1] : s \in Queries}
      \cup {[RetrievalOf(artifact.records, k, texts) EXCEPT !.topK = topK] : k \in TopKs}

AlterRetrieval ==
    /\ stage = "index published"
    /\ retrieval' \in AlteredIndexes \ {retrieval}
    /\ stage' = "index altered"
    /\ UNCHANGED <<curated, texts, topK>>

ReuseRetrieval ==
    /\ stage \in {"index published", "index altered"}
    /\ stage' = IF IndexAccepted THEN "index reused" ELSE "index refused"
    /\ UNCHANGED <<curated, indexed>>

Next ==
    \/ AuditDataset \/ BuildLabelPolicy
    \/ BuildModelDataset \/ ValidateStaged \/ Alter \/ Reuse
    \/ BuildRetrieval \/ ValidateRetrieval \/ AlterRetrieval \/ ReuseRetrieval

Spec == Init /\ [][Next]_vars

(***************************************************************************)
(* Properties.                                                             *)
(***************************************************************************)

\* A target without an override was put on an issue in one of the last active months,
\* however long ago those were.
TargetsAreInUse ==
    policy # None =>
        \A k \in DOMAIN policy.decisions :
            (policy.decisions[k].decision = "include" /\ ~policy.decisions[k].override) =>
                \E i \in DOMAIN issues :
                    /\ policy.decisions[k].label \in issues[i].labels
                    /\ Cardinality({MonthOf[issues[j].created] : j \in
                           {j \in DOMAIN issues : MonthOf[issues[j].created]
                                                    > MonthOf[issues[i].created]}})
                          < config.window

\* No record is trained on that is later than one it is evaluated on, every issue is in
\* exactly one split, and issues of the same instant are in the same one.
NoLookAhead ==
    stage \in {"published", "reused"} =>
        LET rank == [name \in SplitNames |-> CHOOSE k \in 1..3 : Splits[k] = name]
            records == artifact.records
        IN /\ {records[k].id : k \in DOMAIN records} = DOMAIN issues
           /\ \A j, k \in DOMAIN records :
                 records[j].created =< records[k].created =>
                     rank[records[j].split] =< rank[records[k].split]
           /\ \A k \in DOMAIN records :
                 records[k].created = split.test => records[k].split = "test"

\* What the policy promised about the targets is what the model dataset has: as many
\* issues with a target, as many assignments, and enough of each label in each split.
TargetsCarryOver ==
    stage \in {"published", "reused"} =>
        /\ artifact.report.global.withTarget = policy.coverage.withTarget
        /\ artifact.report.global.assignments = policy.coverage.assignments
        /\ \A p \in DOMAIN policy.coverage.included, name \in SplitNames :
              Cardinality({i \in DOMAIN issues :
                  /\ policy.coverage.included[p] \in issues[i].labels
                  /\ AssignSplit(issues[i].created, split) = name}) >= split.minimum[name]

\* An artifact that is used was made from the dataset, the policy and the cutoffs it is
\* used for, whatever was changed in it, if every file's hash still agrees.
UsedMeansDerived ==
    stage = "reused" =>
        LET expected == ArtifactOf(issues, policy, split)
        IN [artifact EXCEPT !.report.warnings = <<>>]
              = [expected EXCEPT !.report.warnings = <<>>]

\* The commands refuse nothing that is in order. The audit's one pass and the policy's
\* own count never disagree, so a policy is refused only if a target misses a criterion;
\* and the model dataset that a build has just staged only if the warning threshold is
\* below the one the validator falls back to.
RefusalsAreExplained ==
    /\ audit # None => ConsistentAudit(audit)
    /\ (stage = "policy refused" /\ UnknownLabels(config, audit) = {}) =>
          \E l \in DOMAIN config.entries :
              /\ config.entries[l].decision = "include" /\ ~config.entries[l].override
              /\ \/ Support(issues, l) < config.minTotal
                 \/ Cardinality(LabelMonths(issues, l)) < config.minMonths
                 \/ RecentSupport(issues, l, config.window) < config.minRecent
    /\ stage = "staged refused" =>
          split.threshold < FallbackThreshold /\ artifact.report.warnings = <<>>

\* The neighbours of an evaluated issue are the nearest of the issues the model is trained
\* on, whatever the corpus on disk has become: they are older than it, none of the training
\* split that was left out is nearer (of two as near, the one with the lower id comes
\* first), and a server that loads the index gives the same ones for the same text.
NeighborsAreTheNearest ==
    stage \in {"index published", "index reused"} =>
        LET trained == {r.id : r \in ToSet(SplitOf(artifact.records, "train"))}
        IN \A s \in Queries : \A k \in DOMAIN retrieval.neighbors[s] :
            LET row == retrieval.neighbors[s][k]
                near == texts[row.query]
                found == [n \in DOMAIN row.neighbors |-> row.neighbors[n].id]
                served == SimilarIssues(retrieval, near, topK, row.selected)
            IN /\ ToSet(found) \subseteq trained
               /\ \A i \in ToSet(found) : issues[i].created < issues[row.query].created
               /\ \A n \in DOMAIN found, i \in trained :
                     i \in ToSet(SubSeq(found, 1, n)) \/ near[i] < near[found[n]]
                       \/ (near[i] = near[found[n]] /\ found[n] < i)
               /\ Len(found) = Least(topK, Cardinality(trained))
               /\ IndexConsistent(retrieval) =>
                     [n \in DOMAIN served |-> served[n].id] = found
=============================================================================
