----------------------------- MODULE MCCuration -----------------------------
(***************************************************************************)
(* Two labels, three times in three months (a month without issues lies    *)
(* between the first two), and configurations that tell the criteria, the  *)
(* override, the window and the thresholds apart.                          *)
(***************************************************************************)
EXTENDS Curation

MCMonthOf == <<1, 3, 4>>

MaxIssues == 4

\* All datasets of up to three issues, and those of four whose ids are in the order of
\* their creation, or the other way round.
MCDatasets ==
    (UNION {[1..n -> Issue] : n \in 0..MaxIssues - 1})
      \cup {d \in [1..MaxIssues -> Issue] :
              \/ \A i, j \in 1..MaxIssues : i < j => d[i].created =< d[j].created
              \/ \A i, j \in 1..MaxIssues : i < j => d[i].created >= d[j].created}

Include == [decision |-> "include", override |-> FALSE]
Override == [decision |-> "include", override |-> TRUE]
Defer == [decision |-> "defer", override |-> FALSE]

MCPolicyConfigs ==
    {[entries |-> c[1], minTotal |-> c[2], minMonths |-> c[2], minRecent |-> c[3],
      window |-> c[3]] :
         c \in {<< <<Include, Include>>, 1, 1>>, << <<Override>>, 2, 2>>,
               << <<Defer, Include>>, 2, 1>>}}

MCSplitConfigs ==
    {[validation |-> 2, test |-> 3, minimum |-> [s \in SplitNames |-> 1],
      threshold |-> t] : t \in {1, 3}}

\* The texts are all alike, or the later of two issues is nearer, or the earlier one.
MCSimilarities ==
    {[q \in 1..MaxIssues |-> [n \in 1..MaxIssues |-> c[1] + c[2] * n]] :
         c \in {<<5, 0>>, <<0, 1>>, <<9, -1>>}}

MCCuts == <<1, 2>>
=============================================================================
