---------------------------- MODULE ModelDataset ----------------------------
(***************************************************************************)
(* What build-model-dataset computes and what it and its readers check     *)
(* (src/repotriage/model_dataset/): a record for every issue, with its     *)
(* targets in the order of the policy and its split by creation time;      *)
(* statistics of the splits; and the validator, which scans the records    *)
(* again. A split configuration is [validation, test, minimum, threshold]. *)
(* Texts are carried along and left out, like the fractions.               *)
(***************************************************************************)
EXTENDS LabelPolicy

CONSTANT FallbackThreshold  \* 5 in _split_config_from_manifest

Splits == <<"train", "validation", "test">>
SplitNames == ToSet(Splits)

\* Mutant: the newest issues are trained on and the oldest held out.
SplitNewestFirst(created, config) ==
    CASE created < config.validation -> "test"
      [] created >= config.validation /\ created < config.test -> "validation"
      [] created >= config.test -> "train"

AssignSplit(created, config) ==
    CASE created < config.validation -> "train"
      [] created >= config.validation /\ created < config.test -> "validation"
      [] created >= config.test -> "test"

TargetVector(labels, canonical) ==
    [k \in DOMAIN canonical |-> IF canonical[k] \in labels THEN 1 ELSE 0]
SelectedLabels(labels, canonical) ==
    LET chosen == {k \in DOMAIN canonical : canonical[k] \in labels}
        upTo[n \in 0..Len(canonical)] ==
            IF n = 0 THEN <<>>
            ELSE IF n \in chosen THEN Append(upTo[n - 1], canonical[n]) ELSE upTo[n - 1]
    IN upTo[Len(canonical)]
Ones(vector) == Cardinality({k \in DOMAIN vector : vector[k] = 1})

RecordOf(issues, id, canonical, config) ==
    [id |-> id, created |-> issues[id].created,
     selected |-> SelectedLabels(issues[id].labels, canonical),
     target |-> TargetVector(issues[id].labels, canonical),
     split |-> AssignSplit(issues[id].created, config)]

OrderedBefore(r, s) ==
    \/ r.created < s.created
    \/ r.created = s.created /\ r.id < s.id

\* sorted by (created_at, issue_id)
RecordOrder(records) == {p \in records \X records : OrderedBefore(p[1], p[2])}
TransformIssues(issues, canonical, config) ==
    LET records == {RecordOf(issues, id, canonical, config) : id \in DOMAIN issues}
    IN SortedBy(records, RecordOrder(records))

(***************************************************************************)
(* Statistics and support, over the records.                               *)
(***************************************************************************)

InSplit(records, split) == {k \in DOMAIN records : records[k].split = split}
Positives(records, split, place) ==
    Cardinality({k \in InSplit(records, split) : records[k].target[place] = 1})

SplitStatistics(records, split, canonical) ==
    LET here == InSplit(records, split)
        created == {records[k].created : k \in here}
    IN [count |-> Cardinality(here),
        allZero |-> Cardinality({k \in here : Ones(records[k].target) = 0}),
        earliest |-> IF here = {} THEN None ELSE Min(created),
        latest |-> IF here = {} THEN None ELSE Max(created),
        histogram |-> [n \in {Ones(records[k].target) : k \in here} |->
                          Cardinality({k \in here : Ones(records[k].target) = n})],
        positives |-> [place \in DOMAIN canonical |-> Positives(records, split, place)]]

\* positives[split][place]: what both the builder and the validator judge by
HardErrors(positives, config) ==
    {at \in SplitNames \X DOMAIN positives["train"] :
        positives[at[1]][at[2]] < config.minimum[at[1]]}

\* In canonical order: by split, then by place in the label map.
SupportWarnings(positives, config) ==
    LET warnings(split) ==
            LET counts == positives[split]
                low == {place \in DOMAIN counts : /\ counts[place] >= config.minimum[split]
                                                 /\ 0 < counts[place]
                                                 /\ counts[place] < config.threshold}
            IN [n \in 1..Cardinality(low) |->
                   LET place == Ascending(low)[n]
                   IN [split |-> split, place |-> place, threshold |-> config.threshold,
                       count |-> counts[place]]]
    IN warnings("validation") \o warnings("test")

GlobalStatistics(records, canonical) ==
    LET with == {k \in DOMAIN records : Ones(records[k].target) > 0}
    IN [total |-> Len(records), withTarget |-> Cardinality(with),
        withoutTarget |-> Len(records) - Cardinality(with),
        assignments |-> Cardinality({p \in (DOMAIN records) \X (DOMAIN canonical) :
                                        records[p[1]].target[p[2]] = 1})]

SplitReport(records, canonical, config) ==
    LET splits == [split \in SplitNames |-> SplitStatistics(records, split, canonical)]
        positives == [split \in SplitNames |-> splits[split].positives]
    IN [validation |-> config.validation, test |-> config.test,
        global |-> GlobalStatistics(records, canonical), splits |-> splits,
        warnings |-> SupportWarnings(positives, config)]

\* The directory: manifest, label map, report and records.
ArtifactOf(issues, policy, config) ==
    LET canonical == policy.coverage.included
        records == TransformIssues(issues, canonical, config)
    IN [validation |-> config.validation, test |-> config.test,
        written |-> Len(records), targets |-> Len(canonical),
        labels |-> canonical, records |-> records,
        report |-> SplitReport(records, canonical, config)]

\* The errors before anything is written.
Transformable(issues, policy) == policy.coverage.included # <<>> \/ issues = <<>>

\* Mutant: only the training split needs its minimum.
SupportedInTraining(issues, policy, config) ==
    LET report == ArtifactOf(issues, policy, config).report
    IN \A place \in DOMAIN report.splits["train"].positives :
          report.splits["train"].positives[place] >= config.minimum["train"]

Supported(issues, policy, config) ==
    LET report == ArtifactOf(issues, policy, config).report
    IN HardErrors([split \in SplitNames |-> report.splits[split].positives], config) = {}

(***************************************************************************)
(* The validator, which reads the records one by one.                      *)
(***************************************************************************)

EmptyScan(targets) ==
    [total |-> 0, withTarget |-> 0, allZero |-> 0, assignments |-> 0,
     splits |-> [split \in SplitNames |->
        [count |-> 0, allZero |-> 0, earliest |-> None, latest |-> None,
         histogram |-> <<>>, positives |-> [place \in 1..targets |-> 0]]]]

ScanSplit(old, record) ==
    LET ones == Ones(record.target)
        seen == IF ones \in DOMAIN old.histogram THEN old.histogram[ones] ELSE 0
    IN [count |-> old.count + 1,
        allZero |-> old.allZero + (IF ones = 0 THEN 1 ELSE 0),
        earliest |-> Earlier(record.created, old.earliest),
        latest |-> Later(record.created, old.latest),
        histogram |-> [n \in DOMAIN old.histogram \cup {ones} |->
                          IF n = ones THEN seen + 1 ELSE old.histogram[n]],
        positives |-> [place \in DOMAIN old.positives |->
                          old.positives[place] + record.target[place]]]

Scan(stats, record) ==
    LET ones == Ones(record.target)
    IN [total |-> stats.total + 1,
        withTarget |-> stats.withTarget + (IF ones > 0 THEN 1 ELSE 0),
        allZero |-> stats.allZero + (IF ones = 0 THEN 1 ELSE 0),
        assignments |-> stats.assignments + ones,
        splits |-> [stats.splits EXCEPT ![record.split] = ScanSplit(@, record)]]

ScanRecords(artifact) ==
    LET records == artifact.records
        scanned[n \in 0..Len(records)] ==
            IF n = 0 THEN EmptyScan(artifact.targets) ELSE Scan(scanned[n - 1], records[n])
    IN scanned[Len(records)]

\* What is checked of each record while it is read.
ConsistentRecords(artifact) ==
    LET records == artifact.records
    IN /\ \A k \in DOMAIN records :
             /\ Len(records[k].target) = artifact.targets
             /\ records[k].selected = SelectedLabels(
                    {artifact.labels[p] : p \in {q \in DOMAIN artifact.labels :
                                                    records[k].target[q] = 1}}, artifact.labels)
             /\ records[k].split = AssignSplit(records[k].created, artifact)
       /\ \A j, k \in DOMAIN records : j # k => records[j].id # records[k].id
       /\ \A k \in DOMAIN records : k > 1 => ~OrderedBefore(records[k], records[k - 1])
       /\ Len(records) = artifact.written

\* The threshold is not in the manifest: it is that of the first warning, or the fallback.
ConfigFromManifest(artifact) ==
    [validation |-> artifact.validation, test |-> artifact.test,
     minimum |-> [split \in SplitNames |-> 1],
     threshold |-> IF artifact.report.warnings = <<>> THEN FallbackThreshold
                   ELSE artifact.report.warnings[1].threshold]

\* Mutant: the histogram and the time range of a split are not compared.
ReportMatchesCounts(stats, artifact) ==
    LET report == artifact.report
    IN /\ report.global.total = stats.total
       /\ report.global.withTarget = stats.withTarget
       /\ \A split \in SplitNames : report.splits[split].count = stats.splits[split].count
       /\ report.warnings = SupportWarnings(
              [split \in SplitNames |-> stats.splits[split].positives],
              ConfigFromManifest(artifact))

ReportMatchesScan(stats, artifact) ==
    LET report == artifact.report
    IN /\ report.global = [total |-> stats.total, withTarget |-> stats.withTarget,
                           withoutTarget |-> stats.total - stats.withTarget,
                           assignments |-> stats.assignments]
       /\ stats.total = artifact.written
       /\ Len(artifact.labels) = artifact.targets
       /\ report.splits = stats.splits
       /\ report.warnings = SupportWarnings(
              [split \in SplitNames |-> stats.splits[split].positives],
              ConfigFromManifest(artifact))

\* validate_model_dataset_artifact_integrity: the artifact agrees with itself.
Intact(artifact) ==
    /\ Len(artifact.labels) = artifact.targets
    /\ Cardinality(ToSet(artifact.labels)) = Len(artifact.labels)
    /\ artifact.report.validation = artifact.validation
    /\ artifact.report.test = artifact.test
    /\ ConsistentRecords(artifact)
    /\ ReportMatchesScan(ScanRecords(artifact), artifact)

\* Every record is the one its issue gives, and every issue has one.
RecordsDeriveFromSource(artifact, issues, canonical, config) ==
    /\ Len(artifact.records) = Len(issues)
    /\ \A k \in DOMAIN artifact.records :
          /\ artifact.records[k].id \in DOMAIN issues
          /\ artifact.records[k]
                = RecordOf(issues, artifact.records[k].id, canonical, config)

PolicyLabelOrder(artifact, policy) ==
    /\ policy.coverage.included = LabelsOf(Included(policy.decisions))
    /\ artifact.labels = policy.coverage.included

AgainstInputs(artifact, issues, policy, config) ==
    /\ Intact(artifact)
    /\ artifact.validation = config.validation /\ artifact.test = config.test
    /\ PolicyLabelOrder(artifact, policy)
    /\ RecordsDeriveFromSource(artifact, issues, policy.coverage.included, config)
=============================================================================
