----------------------------- MODULE LabelPolicy -----------------------------
(***************************************************************************)
(* What build-label-policy computes (src/repotriage/label_policy/): one    *)
(* decision for every audited label, from the configuration alone, and the *)
(* facts that go with it, counted over the dataset once more and compared  *)
(* with the audit. A configuration is [entries, minTotal, minMonths,       *)
(* minRecent, window]; entries maps the reviewed labels to their decision  *)
(* and whether it explains why it overrides the criteria. Role, leakage    *)
(* risk, reason and explanation are carried along unread and left out.     *)
(***************************************************************************)
EXTENDS DatasetAudit

Entry == {entry \in [decision : {"include", "defer", "exclude"}, override : BOOLEAN] :
             entry.override => entry.decision = "include"}

\* A label that nobody has reviewed is excluded; the configuration has to say so.
Resolve(config, label) ==
    IF label \in DOMAIN config.entries
    THEN [decision |-> config.entries[label].decision, source |-> "explicit",
          override |-> config.entries[label].override]
    ELSE [decision |-> "exclude", source |-> "default", override |-> FALSE]

UnknownLabels(config, audit) == DOMAIN config.entries \ AuditedLabels(audit)

(***************************************************************************)
(* The counts, over the dataset.                                           *)
(***************************************************************************)

With(issues, label) == {i \in DOMAIN issues : label \in issues[i].labels}
Support(issues, label) == Cardinality(With(issues, label))
ActiveMonths(issues) == {MonthOf[issues[i].created] : i \in DOMAIN issues}
LabelMonths(issues, label) == {MonthOf[issues[i].created] : i \in With(issues, label)}

\* active_months_sorted[-window:]: the last active months, all when there are fewer.
RecentWindow(issues, months) ==
    {m \in ActiveMonths(issues) :
        Cardinality({n \in ActiveMonths(issues) : n > m}) < months}

RecentSupport(issues, label, months) ==
    Cardinality({i \in With(issues, label) :
                    MonthOf[issues[i].created] \in RecentWindow(issues, months)})

\* The second count must agree with the audit's.
AgreesWithAudit(issues, audit) ==
    /\ Len(issues) = audit.summary.total
    /\ \A m \in ActiveMonths(issues) \cup DOMAIN audit.months.byMonth :
          Copies(m, audit.months.byMonth)
            = Cardinality({i \in DOMAIN issues : MonthOf[issues[i].created] = m})
    /\ AuditedLabels(audit) = UNION {issues[i].labels : i \in DOMAIN issues}
    /\ \A k \in DOMAIN audit.labels.labels :
          audit.labels.labels[k].count = Support(issues, audit.labels.labels[k].name)

(***************************************************************************)
(* Decisions.                                                              *)
(***************************************************************************)

DecisionRecord(issues, config, label) ==
    LET resolved == Resolve(config, label)
        months == LabelMonths(issues, label)
    IN [label |-> label, decision |-> resolved.decision, source |-> resolved.source,
        override |-> resolved.override, total |-> Support(issues, label),
        months |-> Cardinality(months),
        first |-> CHOOSE m \in months : \A n \in months : m =< n,
        last |-> CHOOSE m \in months : \A n \in months : n =< m,
        recent |-> RecentSupport(issues, label, config.window)]

Decisions(issues, config, audit) ==
    LET ranked == RankedBy([l \in AuditedLabels(audit) |-> Support(issues, l)],
                           AuditedLabels(audit))
    IN [k \in DOMAIN ranked |-> DecisionRecord(issues, config, ranked[k])]

MeetsCriteria(record, config) ==
    /\ record.total >= config.minTotal
    /\ record.months >= config.minMonths
    /\ record.recent >= config.minRecent

\* Mutant: an override is not needed when the label has enough support in all.
SelectsTolerantly(record, config) ==
    record.decision # "include" \/ record.override \/ record.total >= config.minTotal

Selectable(record, config) ==
    record.decision # "include" \/ record.override \/ MeetsCriteria(record, config)

(***************************************************************************)
(* The policy document.                                                    *)
(***************************************************************************)

\* The decisions to include, in their order.
Included(decisions) ==
    LET places == Ascending({k \in DOMAIN decisions : decisions[k].decision = "include"})
    IN [n \in DOMAIN places |-> decisions[places[n]]]
LabelsOf(decisions) == [k \in DOMAIN decisions |-> decisions[k].label]
CountOf(decisions, Test(_)) == Cardinality({k \in DOMAIN decisions : Test(decisions[k])})

Coverage(issues, decisions) ==
    LET included == LabelsOf(Included(decisions))
        targets == [i \in DOMAIN issues |-> issues[i].labels \cap ToSet(included)]
        covered == {i \in DOMAIN issues : targets[i] # {}}
    IN [total |-> Len(issues), months |-> Cardinality(ActiveMonths(issues)),
        audited |-> Len(decisions), included |-> included,
        deferred |-> CountOf(decisions, LAMBDA r : r.decision = "defer"),
        excluded |-> CountOf(decisions, LAMBDA r : r.decision = "exclude"),
        explicit |-> CountOf(decisions, LAMBDA r : r.source = "explicit"),
        default |-> CountOf(decisions, LAMBDA r : r.source = "default"),
        withTarget |-> Cardinality(covered),
        withoutTarget |-> Len(issues) - Cardinality(covered),
        assignments |-> Cardinality({p \in (DOMAIN issues) \X ToSet(included) :
                                        p[2] \in issues[p[1]].labels})]

PolicyOf(issues, config, audit) ==
    LET decisions == Decisions(issues, config, audit)
    IN [criteria |-> [f \in DOMAIN config \ {"entries"} |-> config[f]],
        coverage |-> Coverage(issues, decisions), decisions |-> decisions]

\* What the models of the document check of themselves when it is made or read.
ConsistentRecord(record) ==
    /\ record.source = "default" => record.decision = "exclude"
    /\ record.recent =< record.total
    /\ record.months =< record.total
    /\ record.total > 0 => record.months >= 1 /\ record.first =< record.last

ConsistentCoverage(coverage) ==
    /\ coverage.months >= 1
    /\ Len(coverage.included) + coverage.deferred + coverage.excluded = coverage.audited
    /\ coverage.explicit + coverage.default = coverage.audited
    /\ Cardinality(ToSet(coverage.included)) = Len(coverage.included)
    /\ coverage.withTarget + coverage.withoutTarget = coverage.total

ConsistentPolicy(policy) ==
    LET decisions == policy.decisions
        coverage == policy.coverage
    IN /\ ConsistentCoverage(coverage)
       /\ \A k \in DOMAIN decisions :
             /\ ConsistentRecord(decisions[k])
             /\ Selectable(decisions[k], policy.criteria)
             /\ decisions[k].months =< coverage.months
       /\ Len(decisions) = coverage.audited
       /\ Cardinality(ToSet(LabelsOf(decisions))) = Len(decisions)
       /\ LabelsOf(decisions) = RankedBy([l \in ToSet(LabelsOf(decisions)) |->
               (CHOOSE r \in ToSet(decisions) : r.label = l).total], ToSet(LabelsOf(decisions)))
       /\ ToSet(coverage.included) = ToSet(LabelsOf(Included(decisions)))
       /\ coverage.deferred = CountOf(decisions, LAMBDA r : r.decision = "defer")
       /\ coverage.excluded = CountOf(decisions, LAMBDA r : r.decision = "exclude")
       /\ coverage.explicit = CountOf(decisions, LAMBDA r : r.source = "explicit")
       /\ coverage.default = CountOf(decisions, LAMBDA r : r.source = "default")
=============================================================================
