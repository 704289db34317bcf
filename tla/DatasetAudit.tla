---------------------------- MODULE DatasetAudit ----------------------------
(***************************************************************************)
(* What audit-dataset computes (src/repotriage/audit/analyzer.py): one     *)
(* pass over the normalized issues that counts, and a document made from   *)
(* the counts. An issue is [created, labels]; a dataset is a sequence of   *)
(* issues, and an issue's id is its place in it. Labels are numbers, in    *)
(* the order of their names. Text lengths and structure, open and closed,  *)
(* authors and label pairs are counted in the same way and left out, as    *)
(* are the fractions, which are quotients of counts that are kept.         *)
(***************************************************************************)
EXTENDS Integers, Sequences, FiniteSets, SequencesExt

CONSTANTS
    Labels,     \* numbers, ordered like the labels' names
    Times,      \* the times an issue may have been created at
    MonthOf,    \* the calendar month, a number, of every time
    None        \* no time at all

ASSUME AuditAssumption ==
    /\ Labels \subseteq Int /\ Times \subseteq Int
    /\ MonthOf \in [Times -> Int]
    /\ \A t, u \in Times : t =< u => MonthOf[t] =< MonthOf[u]
    /\ None \notin Times

Issue == [created : Times, labels : SUBSET Labels]

\* A Counter, and one more of a month.
Copies(month, counter) == IF month \in DOMAIN counter THEN counter[month] ELSE 0
CountedOnce(counter, month) ==
    [m \in DOMAIN counter \cup {month} |-> Copies(m, counter) + (IF m = month THEN 1 ELSE 0)]

Earlier(t, u) == IF u = None \/ t < u THEN t ELSE u
Later(t, u) == IF u = None \/ t > u THEN t ELSE u

\* sorted(): before has the pairs of elements of which one comes before the other. The
\* k-th element of S is the one that k - 1 others come before.
SortedBy(S, before) ==
    [k \in 1..Cardinality(S) |->
        CHOOSE x \in S : Cardinality({y \in S : <<y, x>> \in before}) = k - 1]

Ascending(numbers) == SortedBy(numbers, {p \in numbers \X numbers : p[1] < p[2]})

\* By (-count, name): the order of every list of labels in the program.
RankOrder(count, labels) ==
    {p \in labels \X labels :
        \/ count[p[1]] > count[p[2]]
        \/ count[p[1]] = count[p[2]] /\ p[1] < p[2]}
RankedBy(count, labels) == SortedBy(labels, RankOrder(count, labels))

(***************************************************************************)
(* The accumulator.                                                        *)
(***************************************************************************)

Tally(tallies, label, created) ==
    LET old == IF label \in DOMAIN tallies THEN tallies[label]
               ELSE [count |-> 0, first |-> None, last |-> None]
    IN [count |-> old.count + 1,
        first |-> Earlier(created, old.first), last |-> Later(created, old.last)]

Nothing == [total |-> 0, labelled |-> 0, assignments |-> 0, earliest |-> None,
            latest |-> None, tallies |-> <<>>, byMonth |-> <<>>, labelledByMonth |-> <<>>]

\* Mutant: only months with labelled issues are counted.
CountLabelledMonths(seen, issue) ==
    LET counted(counter) == IF issue.labels = {} THEN counter
                            ELSE CountedOnce(counter, MonthOf[issue.created])
    IN [total |-> seen.total + 1,
        labelled |-> seen.labelled + (IF issue.labels = {} THEN 0 ELSE 1),
        assignments |-> seen.assignments + Cardinality(issue.labels),
        earliest |-> Earlier(issue.created, seen.earliest),
        latest |-> Later(issue.created, seen.latest),
        tallies |-> [l \in DOMAIN seen.tallies \cup issue.labels |->
                        IF l \in issue.labels THEN Tally(seen.tallies, l, issue.created)
                        ELSE seen.tallies[l]],
        byMonth |-> counted(seen.byMonth),
        labelledByMonth |-> counted(seen.labelledByMonth)]

Add(seen, issue) ==
    LET month == MonthOf[issue.created]
    IN [total |-> seen.total + 1,
        labelled |-> seen.labelled + (IF issue.labels = {} THEN 0 ELSE 1),
        assignments |-> seen.assignments + Cardinality(issue.labels),
        earliest |-> Earlier(issue.created, seen.earliest),
        latest |-> Later(issue.created, seen.latest),
        tallies |-> [l \in DOMAIN seen.tallies \cup issue.labels |->
                        IF l \in issue.labels THEN Tally(seen.tallies, l, issue.created)
                        ELSE seen.tallies[l]],
        byMonth |-> CountedOnce(seen.byMonth, month),
        labelledByMonth |-> IF issue.labels = {} THEN seen.labelledByMonth
                            ELSE CountedOnce(seen.labelledByMonth, month)]

Analyze(issues) ==
    LET seen[n \in 0..Len(issues)] ==
            IF n = 0 THEN Nothing ELSE Add(seen[n - 1], issues[n])
    IN seen[Len(issues)]

(***************************************************************************)
(* The document.                                                           *)
(***************************************************************************)

CalendarSpan(seen) ==
    IF seen.total = 0 THEN 0 ELSE MonthOf[seen.latest] - MonthOf[seen.earliest] + 1

RepositorySummary(seen) ==
    [total |-> seen.total, labelled |-> seen.labelled,
     unlabelled |-> seen.total - seen.labelled,
     earliest |-> seen.earliest, latest |-> seen.latest,
     activeMonths |-> Cardinality(DOMAIN seen.byMonth), span |-> CalendarSpan(seen)]

LabelMetrics(seen) ==
    LET count == [l \in DOMAIN seen.tallies |-> seen.tallies[l].count]
        ranked == RankedBy(count, DOMAIN seen.tallies)
    IN [unique |-> Cardinality(DOMAIN seen.tallies), assignments |-> seen.assignments,
        unlabelled |-> seen.total - seen.labelled,
        labels |-> [k \in DOMAIN ranked |->
                       [name |-> ranked[k], count |-> count[ranked[k]],
                        first |-> seen.tallies[ranked[k]].first,
                        last |-> seen.tallies[ranked[k]].last]]]

TemporalMetrics(seen) ==
    [activeMonths |-> Cardinality(DOMAIN seen.byMonth), span |-> CalendarSpan(seen),
     byMonth |-> seen.byMonth,
     labelledByMonth |-> [m \in DOMAIN seen.byMonth |->
                             Copies(m, seen.labelledByMonth)]]

AuditOf(issues) ==
    LET seen == Analyze(issues)
    IN [summary |-> RepositorySummary(seen), labels |-> LabelMetrics(seen),
        months |-> TemporalMetrics(seen)]

AuditedLabels(audit) == {audit.labels.labels[k].name : k \in DOMAIN audit.labels.labels}

\* What the models of the document check of themselves.
ConsistentSummary(summary) ==
    /\ summary.labelled + summary.unlabelled = summary.total
    /\ (summary.earliest = None) = (summary.latest = None)
    /\ summary.earliest # None => summary.earliest =< summary.latest
    /\ summary.activeMonths =< summary.span

ConsistentLabels(metrics) == Len(metrics.labels) = metrics.unique

ConsistentMonths(metrics) ==
    /\ Cardinality(DOMAIN metrics.byMonth) = metrics.activeMonths
    /\ metrics.activeMonths =< metrics.span
    /\ DOMAIN metrics.labelledByMonth = DOMAIN metrics.byMonth

ConsistentAudit(audit) ==
    /\ ConsistentSummary(audit.summary)
    /\ ConsistentLabels(audit.labels)
    /\ ConsistentMonths(audit.months)
=============================================================================
