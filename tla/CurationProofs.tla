--------------------------- MODULE CurationProofs ---------------------------
(***************************************************************************)
(* Theorems about Curation, for any datasets, configurations and texts,    *)
(* and whatever was changed in a published directory.                      *)
(***************************************************************************)
EXTENDS Curation, FiniteSetTheorems, SequenceTheorems, WellFoundedInduction, TLAPS

-----------------------------------------------------------------------------
(* Sorting.                                                                *)

\* before orders S: of two elements exactly one is before the other.
Orders(before, S) ==
    /\ \A x \in S : <<x, x>> \notin before
    /\ \A x, y \in S : x # y => <<x, y>> \in before \/ <<y, x>> \in before
    /\ \A x, y, z \in S : <<x, y>> \in before /\ <<y, z>> \in before => <<x, z>> \in before

\* What comes before x, and how much that is.
Preceding(S, before, x) == {y \in S : <<y, x>> \in before}
Rank(S, before, x) == Cardinality(Preceding(S, before, x))

\* The ranks are the numbers from 0 on, an element of a lower rank is before one of a higher.
LEMMA Ranks ==
    ASSUME NEW S, IsFiniteSet(S), NEW before, Orders(before, S)
    PROVE  /\ \A x \in S : Rank(S, before, x) \in 0..(Cardinality(S) - 1)
           /\ \A n \in 0..(Cardinality(S) - 1) : \E x \in S : Rank(S, before, x) = n
           /\ \A x, y \in S : <<x, y>> \in before <=> Rank(S, before, x) < Rank(S, before, y)
<1>1. \A x \in S : /\ IsFiniteSet(Preceding(S, before, x)) /\ Preceding(S, before, x) \subseteq S
                   /\ x \notin Preceding(S, before, x) /\ Rank(S, before, x) \in Nat
  <2>1. SUFFICES ASSUME NEW x \in S
                 PROVE  /\ IsFiniteSet(Preceding(S, before, x)) /\ Preceding(S, before, x) \subseteq S
                        /\ x \notin Preceding(S, before, x) /\ Rank(S, before, x) \in Nat
    OBVIOUS
  <2>2. Preceding(S, before, x) \in SUBSET S /\ x \notin Preceding(S, before, x)
    BY DEF Preceding, Orders
  <2>3. IsFiniteSet(Preceding(S, before, x))
    BY <2>2, FS_Subset
  <2>. QED BY <2>2, <2>3, FS_CardinalityType DEF Rank
<1>2. Cardinality(S) \in Nat
  BY FS_CardinalityType
<1>3. ASSUME NEW x \in S PROVE Rank(S, before, x) \in 0..(Cardinality(S) - 1)
  <2>1. Preceding(S, before, x) \in SUBSET S /\ Preceding(S, before, x) # S
    BY <1>1
  <2>2. Rank(S, before, x) =< Cardinality(S) /\ Rank(S, before, x) # Cardinality(S)
    BY <2>1, FS_Subset DEF Rank
  <2>. QED BY <1>1, <1>2, <2>2
<1>4. ASSUME NEW x \in S, NEW y \in S, <<x, y>> \in before
      PROVE  Rank(S, before, x) < Rank(S, before, y)
  <2>1. Preceding(S, before, x) \cup {x} \in SUBSET Preceding(S, before, y)
    BY <1>4 DEF Preceding, Orders
  <2>2. /\ IsFiniteSet(Preceding(S, before, x)) /\ x \notin Preceding(S, before, x)
        /\ IsFiniteSet(Preceding(S, before, y))
    BY <1>1
  <2>3. Cardinality(Preceding(S, before, x) \cup {x}) = Cardinality(Preceding(S, before, x)) + 1
    BY <2>2, FS_AddElement
  <2>4. Cardinality(Preceding(S, before, x) \cup {x}) =< Cardinality(Preceding(S, before, y))
    BY <2>1, <2>2, FS_Subset
  <2>5. Rank(S, before, x) \in Nat /\ Rank(S, before, y) \in Nat
    BY <1>1
  <2>. QED BY <2>3, <2>4, <2>5 DEF Rank
<1>5. ASSUME NEW x \in S, NEW y \in S, Rank(S, before, x) < Rank(S, before, y)
      PROVE  <<x, y>> \in before
  <2>1. Rank(S, before, x) \in Nat /\ Rank(S, before, y) \in Nat
    BY <1>1
  <2>2. x # y /\ <<y, x>> \notin before
    BY <1>4, <1>5, <2>1
  <2>. QED BY <2>2 DEF Orders
<1>6. ASSUME NEW n \in 0..(Cardinality(S) - 1) PROVE \E x \in S : Rank(S, before, x) = n
  <2>. DEFINE f == [x \in S |-> Rank(S, before, x)]
              T == 0..(Cardinality(S) - 1)
  <2>1. f \in [S -> T]
    BY <1>3
  <2>2. ASSUME NEW x \in S, NEW y \in S, x # y PROVE f[x] # f[y]
    <3>1. Rank(S, before, x) \in Nat /\ Rank(S, before, y) \in Nat
      BY <1>1
    <3>2. Rank(S, before, x) < Rank(S, before, y) \/ Rank(S, before, y) < Rank(S, before, x)
      BY <1>4, <2>2 DEF Orders
    <3>. QED BY <3>1, <3>2
  <2>3. f \in Injection(S, T)
    BY <2>1, <2>2 DEF Injection, IsInjective
  <2>4. IsFiniteSet(T) /\ Cardinality(T) = Cardinality(S)
    BY <1>2, FS_Interval
  <2>5. f \in Surjection(S, T)
    <3>. HIDE DEF f, T
    <3>. QED BY <2>3, <2>4, FS_Injection
  <2>6. \E x \in S : f[x] = n
    BY <2>5 DEF Surjection
  <2>. QED BY <2>6
<1>. QED BY <1>3, <1>4, <1>5, <1>6

\* Sorting a set gives every element of it once, in the order.
LEMMA Sorting ==
    ASSUME NEW S, IsFiniteSet(S), NEW before, Orders(before, S)
    PROVE  /\ SortedBy(S, before) \in Seq(S)
           /\ Len(SortedBy(S, before)) = Cardinality(S) /\ Cardinality(S) \in Nat
           /\ DOMAIN SortedBy(S, before) = 1..Cardinality(S)
           /\ \A x \in S : \E k \in 1..Cardinality(S) : SortedBy(S, before)[k] = x
           /\ \A k \in 1..Cardinality(S) : /\ SortedBy(S, before)[k] \in S
                                           /\ Rank(S, before, SortedBy(S, before)[k]) = k - 1
           /\ \A j, k \in 1..Cardinality(S) :
                 <<SortedBy(S, before)[j], SortedBy(S, before)[k]>> \in before <=> j < k
<1>. DEFINE n == Cardinality(S)
            s == SortedBy(S, before)
<1>1. n \in Nat
  BY FS_CardinalityType
<1>2. s = [k \in 1..n |-> CHOOSE x \in S : Rank(S, before, x) = k - 1]
  BY DEF SortedBy, Rank, Preceding
<1>3. ASSUME NEW k \in 1..n PROVE s[k] \in S /\ Rank(S, before, s[k]) = k - 1
  <2>1. k - 1 \in 0..(n - 1)
    BY <1>1
  <2>2. \E x \in S : Rank(S, before, x) = k - 1
    BY <2>1, Ranks
  <2>. QED BY <1>2, <2>2
<1>4. DOMAIN s = 1..n
  BY <1>2
<1>. HIDE DEF s
<1>5. s \in Seq(S) /\ Len(s) = n
  BY <1>1, <1>2, <1>3, <1>4
<1>6. ASSUME NEW x \in S PROVE \E k \in 1..n : s[k] = x
  <2>. DEFINE k == Rank(S, before, x) + 1
  <2>1. k \in 1..n /\ k - 1 = Rank(S, before, x)
    BY <1>1, Ranks
  <2>. HIDE DEF k
  <2>2. s[k] \in S /\ Rank(S, before, s[k]) = Rank(S, before, x)
    BY <1>3, <2>1
  <2>3. s[k] = x
    <3>1. Rank(S, before, x) \in 0..(n - 1)
      BY Ranks
    <3>2. <<s[k], x>> \notin before /\ <<x, s[k]>> \notin before
      BY <2>2, <3>1, Ranks
    <3>. QED BY <2>2, <3>2 DEF Orders
  <2>. QED BY <2>1, <2>3
<1>7. ASSUME NEW j \in 1..n, NEW k \in 1..n PROVE <<s[j], s[k]>> \in before <=> j < k
  <2>1. <<s[j], s[k]>> \in before <=> Rank(S, before, s[j]) < Rank(S, before, s[k])
    BY <1>3, Ranks
  <2>2. Rank(S, before, s[j]) = j - 1 /\ Rank(S, before, s[k]) = k - 1
    BY <1>3
  <2>. QED BY <2>1, <2>2
<1>. QED BY <1>1, <1>3, <1>4, <1>5, <1>6, <1>7 DEF s

\* No two elements have the same rank.
LEMMA RanksDiffer ==
    ASSUME NEW S, IsFiniteSet(S), NEW before, Orders(before, S), NEW x \in S, NEW y \in S,
           Rank(S, before, x) = Rank(S, before, y)
    PROVE  x = y
<1>1. Rank(S, before, x) \in 0..(Cardinality(S) - 1)
      /\ Rank(S, before, y) \in 0..(Cardinality(S) - 1)
  BY Ranks
<1>2. Rank(S, before, x) \in Int /\ Rank(S, before, y) \in Int
  BY <1>1
<1>3. <<x, y>> \notin before /\ <<y, x>> \notin before
  BY <1>2, Ranks
<1>. QED BY <1>3 DEF Orders

\* Two sets of the same ids, in the same order, give the same ids when sorted.
LEMMA SameOrder ==
    ASSUME NEW S, IsFiniteSet(S), NEW b, Orders(b, S),
           NEW T, IsFiniteSet(T), NEW c, Orders(c, T),
           \A x \in S : \E y \in T : y.id = x.id,
           \A y \in T : \E x \in S : x.id = y.id,
           \A x, y \in S : x # y => x.id # y.id,
           \A x, y \in T : x # y => x.id # y.id,
           \A u, x \in S, v, y \in T :
              u.id = v.id /\ x.id = y.id => (<<u, x>> \in b <=> <<v, y>> \in c)
    PROVE  /\ Cardinality(S) = Cardinality(T)
           /\ \A k \in 1..Cardinality(T) : SortedBy(S, b)[k].id = SortedBy(T, c)[k].id
<1>. DEFINE g == [x \in S |-> CHOOSE y \in T : y.id = x.id]
<1>1. ASSUME NEW x \in S PROVE g[x] \in T /\ g[x].id = x.id
  OBVIOUS
<1>2. DOMAIN g = S
  OBVIOUS
<1>. HIDE DEF g
<1>3. ASSUME NEW y \in T PROVE \E x \in S : g[x] = y
  <2>1. PICK x \in S : x.id = y.id
    OBVIOUS
  <2>. QED BY <1>1, <2>1
<1>4. ASSUME NEW A, NEW B, A \subseteq S, IsFiniteSet(A),
             \A x \in A : g[x] \in B, \A y \in B : \E x \in A : g[x] = y
      PROVE  Cardinality(A) = Cardinality(B)
  <2>. DEFINE h == [x \in A |-> g[x]]
  <2>1. /\ h \in [A -> B]
        /\ \A y \in B : \E x \in A : h[x] = y
    BY <1>4
  <2>2. \A x, y \in A : h[x] = h[y] => x = y
    BY <1>1, <1>4
  <2>. HIDE DEF h
  <2>3. h \in Bijection(A, B)
    BY <2>1, <2>2 DEF Bijection, Injection, Surjection, IsInjective
  <2>. QED BY <1>4, <2>3, FS_Bijection DEF ExistsBijection
<1>5. Cardinality(S) = Cardinality(T)
  BY <1>1, <1>3, <1>4
<1>6. ASSUME NEW x \in S PROVE Rank(S, b, x) = Rank(T, c, g[x])
  <2>. DEFINE A == Preceding(S, b, x)
              B == Preceding(T, c, g[x])
  <2>1. A \subseteq S /\ IsFiniteSet(A)
    <3>1. A \in SUBSET S
      BY DEF Preceding
    <3>. QED BY <3>1, FS_Subset
  <2>2. \A u \in A : g[u] \in B
    BY <1>1 DEF Preceding
  <2>3. ASSUME NEW v \in B PROVE \E u \in A : g[u] = v
    <3>1. v \in T /\ <<v, g[x]>> \in c
      BY DEF Preceding
    <3>2. PICK u \in S : g[u] = v
      BY <1>3, <3>1
    <3>3. <<u, x>> \in b
      BY <1>1, <3>1, <3>2
    <3>. QED BY <3>2, <3>3 DEF Preceding
  <2>. HIDE DEF A, B
  <2>4. Cardinality(A) = Cardinality(B)
    BY <1>4, <2>1, <2>2, <2>3
  <2>. QED BY <2>4 DEF A, B, Rank
<1>7. ASSUME NEW k \in 1..Cardinality(T)
      PROVE  SortedBy(S, b)[k].id = SortedBy(T, c)[k].id
  <2>. DEFINE x == SortedBy(S, b)[k]
              y == SortedBy(T, c)[k]
  <2>1. x \in S /\ Rank(S, b, x) = k - 1
    BY <1>5, Sorting
  <2>2. y \in T /\ Rank(T, c, y) = k - 1
    BY Sorting
  <2>. HIDE DEF x, y
  <2>3. g[x] \in T /\ Rank(T, c, g[x]) = Rank(T, c, y)
    BY <1>1, <1>6, <2>1, <2>2
  <2>4. g[x] = y
    BY <2>2, <2>3, RanksDiffer
  <2>5. x.id = y.id
    BY <1>1, <2>1, <2>4
  <2>. QED BY <2>5 DEF x, y
<1>. QED BY <1>5, <1>7

-----------------------------------------------------------------------------
(* Lists, times and splits.                                                *)

Listed(s) == \E S : s \in Seq(S)

\* A list has places.
LEMMA ListPlaces ==
    ASSUME NEW s, Listed(s)
    PROVE  /\ Len(s) \in Nat /\ DOMAIN s = 1..Len(s)
           /\ IsFiniteSet(DOMAIN s) /\ IsFiniteSet(ToSet(s))
<1>1. PICK S : s \in Seq(S)
  BY DEF Listed
<1>2. Len(s) \in Nat /\ Len(s) \in Int /\ DOMAIN s = 1..Len(s)
  BY <1>1
<1>3. IsFiniteSet(DOMAIN s)
  BY <1>2, FS_Interval
<1>4. s \in Surjection(DOMAIN s, ToSet(s))
  <2>1. s \in [DOMAIN s -> ToSet(s)]
    BY <1>1, <1>2 DEF ToSet
  <2>2. \A x \in ToSet(s) : \E k \in DOMAIN s : s[k] = x
    BY DEF ToSet
  <2>. QED BY <2>1, <2>2 DEF Surjection
<1>. QED BY <1>2, <1>3, <1>4, FS_Surjection

\* The issues have places, and the times they were created at are numbers.
LEMMA IssuesAreListed ==
    ASSUME NEW d \in Datasets
    PROVE  /\ d \in Seq(Issue) /\ Len(d) \in Nat /\ DOMAIN d = 1..Len(d)
           /\ \A i \in DOMAIN d : d[i].created \in Int
<1>1. d \in Seq(Issue)
  BY CurationAssumption
<1>2. \A x \in Issue : x.created \in Int
  BY AuditAssumption DEF Issue
<1>. QED BY <1>1, <1>2

\* The splits and their places.
LEMMA SplitPlaces ==
    /\ SplitNames = {"train", "validation", "test"}
    /\ (CHOOSE k \in 1..3 : Splits[k] = "train") = 1
    /\ (CHOOSE k \in 1..3 : Splits[k] = "validation") = 2
    /\ (CHOOSE k \in 1..3 : Splits[k] = "test") = 3
<1>1. /\ DOMAIN Splits = 1..3
      /\ Splits[1] = "train" /\ Splits[2] = "validation" /\ Splits[3] = "test"
  BY DEF Splits
<1>2. 1..3 = {1, 2, 3}
  OBVIOUS
<1>3. SplitNames = {Splits[1], Splits[2], Splits[3]}
  BY <1>1, <1>2 DEF SplitNames, ToSet
<1>4. \A k \in {1, 2, 3} : /\ Splits[k] = "train" => k = 1
                           /\ Splits[k] = "validation" => k = 2
                           /\ Splits[k] = "test" => k = 3
  BY <1>1
<1>. QED BY <1>1, <1>2, <1>3, <1>4

\* A time belongs to one split, by the two cutoffs.
LEMMA SplitByTime ==
    ASSUME NEW c \in SplitConfigs, NEW t \in Int
    PROVE  /\ t < c.validation => AssignSplit(t, c) = "train"
           /\ t >= c.validation /\ t < c.test => AssignSplit(t, c) = "validation"
           /\ t >= c.test => AssignSplit(t, c) = "test"
           /\ c.validation \in Int /\ c.test \in Int /\ c.validation < c.test
<1>1. c.validation \in Int /\ c.test \in Int /\ c.validation < c.test
  BY CurationAssumption
<1>2. CASE t < c.validation
  <2>1. ~(t >= c.validation /\ t < c.test) /\ ~(t >= c.test)
    BY <1>1, <1>2
  <2>. QED BY <1>1, <1>2, <2>1 DEF AssignSplit
<1>3. CASE t >= c.validation /\ t < c.test
  <2>1. ~(t < c.validation) /\ ~(t >= c.test)
    BY <1>1, <1>3
  <2>. QED BY <1>1, <1>3, <2>1 DEF AssignSplit
<1>4. CASE t >= c.test
  <2>1. ~(t < c.validation) /\ ~(t >= c.validation /\ t < c.test)
    BY <1>1, <1>4
  <2>. QED BY <1>1, <1>4, <2>1 DEF AssignSplit
<1>. QED BY <1>1, <1>2, <1>3, <1>4

\* A later time has no earlier split.
LEMMA SplitsInOrder ==
    ASSUME NEW c \in SplitConfigs, NEW t \in Int, NEW u \in Int, t =< u
    PROVE  (CHOOSE k \in 1..3 : Splits[k] = AssignSplit(t, c))
              =< (CHOOSE k \in 1..3 : Splits[k] = AssignSplit(u, c))
<1>. DEFINE place(name) == CHOOSE k \in 1..3 : Splits[k] = name
<1>1. place("train") = 1 /\ place("validation") = 2 /\ place("test") = 3
  BY SplitPlaces
<1>2. c.validation \in Int /\ c.test \in Int /\ c.validation < c.test
  BY SplitByTime
<1>. HIDE DEF place
<1>3. CASE t < c.validation
  <2>1. AssignSplit(t, c) = "train"
    BY <1>3, SplitByTime
  <2>2. AssignSplit(u, c) \in {"train", "validation", "test"}
    BY <1>2, SplitByTime
  <2>3. place(AssignSplit(t, c)) =< place(AssignSplit(u, c))
    BY <1>1, <2>1, <2>2
  <2>. QED BY <2>3 DEF place
<1>4. CASE t >= c.validation /\ t < c.test
  <2>1. AssignSplit(t, c) = "validation"
    BY <1>4, SplitByTime
  <2>2. AssignSplit(u, c) \in {"validation", "test"}
    BY <1>2, <1>4, SplitByTime
  <2>3. place(AssignSplit(t, c)) =< place(AssignSplit(u, c))
    BY <1>1, <2>1, <2>2
  <2>. QED BY <2>3 DEF place
<1>5. CASE t >= c.test
  <2>1. AssignSplit(t, c) = "test" /\ AssignSplit(u, c) = "test"
    BY <1>2, <1>5, SplitByTime
  <2>2. place(AssignSplit(t, c)) =< place(AssignSplit(u, c))
    BY <1>1, <2>1
  <2>. QED BY <2>2 DEF place
<1>. QED BY <1>2, <1>3, <1>4, <1>5

\* Records that derive from the issues, as many as there are and no two of one issue, are
\* those of all issues.
LEMMA EveryIssueHasARecord ==
    ASSUME NEW d \in Datasets, NEW records, NEW S, records \in Seq(S),
           Len(records) = Len(d),
           \A k \in DOMAIN records : records[k].id \in DOMAIN d,
           \A j, k \in DOMAIN records : j # k => records[j].id # records[k].id
    PROVE  {records[k].id : k \in DOMAIN records} = DOMAIN d
<1>. DEFINE f == [k \in DOMAIN records |-> records[k].id]
<1>1. DOMAIN records = DOMAIN d /\ DOMAIN d = 1..Len(d) /\ Len(d) \in Int
  BY IssuesAreListed
<1>2. IsFiniteSet(DOMAIN d)
  BY <1>1, FS_Interval
<1>3. f \in [DOMAIN records -> DOMAIN d]
  OBVIOUS
<1>4. \A j, k \in DOMAIN records : f[j] = f[k] => j = k
  OBVIOUS
<1>5. f \in Surjection(DOMAIN records, DOMAIN d)
  <2>. HIDE DEF f
  <2>1. f \in Injection(DOMAIN records, DOMAIN d)
    BY <1>3, <1>4 DEF Injection, IsInjective
  <2>2. IsFiniteSet(DOMAIN records) /\ Cardinality(DOMAIN d) = Cardinality(DOMAIN records)
    BY <1>1, <1>2
  <2>. QED BY <1>2, <2>1, <2>2, FS_Injection
<1>6. \A i \in DOMAIN d : \E k \in DOMAIN records : f[k] = i
  BY <1>5 DEF Surjection
<1>. QED BY <1>6

\* A function on the first numbers is a list.
LEMMA FunctionsAreLists ==
    ASSUME NEW n \in Nat, NEW f, f = [k \in 1..n |-> f[k]]
    PROVE  Listed(f) /\ Len(f) = n /\ DOMAIN f = 1..n
<1>1. DOMAIN f = 1..n
  OBVIOUS
<1>2. f \in Seq({f[k] : k \in 1..n}) /\ Len(f) = n
  BY <1>1
<1>. QED BY <1>1, <1>2 DEF Listed

\* The labels to include are a list.
LEMMA IncludedIsListed ==
    ASSUME NEW decisions, IsFiniteSet(DOMAIN decisions)
    PROVE  Listed(LabelsOf(Included(decisions)))
<1>. DEFINE chosen == {k \in DOMAIN decisions : decisions[k].decision = "include"}
            places == Ascending(chosen)
            included == Included(decisions)
            labels == LabelsOf(included)
<1>1. Cardinality(chosen) \in Nat
  <2>1. chosen \in SUBSET DOMAIN decisions
    OBVIOUS
  <2>. QED BY <2>1, FS_Subset, FS_CardinalityType
<1>2. DOMAIN places = 1..Cardinality(chosen)
  BY DEF Ascending, SortedBy
<1>. HIDE DEF chosen, places
<1>3. included = [n \in DOMAIN places |-> decisions[places[n]]]
  BY DEF Included, chosen, places
<1>4. labels = [k \in DOMAIN included |-> included[k].label]
  BY DEF LabelsOf
<1>. HIDE DEF included, labels
<1>5. labels = [k \in 1..Cardinality(chosen) |-> labels[k]]
  BY <1>2, <1>3, <1>4
<1>6. Listed(labels)
  BY <1>1, <1>5, FunctionsAreLists
<1>. QED BY <1>6 DEF labels, included

\* The labels of a dataset.
LabelsIn(d) == UNION {d[i].labels : i \in DOMAIN d}

\* They are numbers, and finitely many.
LEMMA LabelsAreFinite ==
    ASSUME NEW d \in Datasets
    PROVE  IsFiniteSet(LabelsIn(d)) /\ LabelsIn(d) \subseteq Int
<1>. DEFINE T == {d[i].labels : i \in DOMAIN d}
            f == [i \in DOMAIN d |-> d[i].labels]
<1>1. IsFiniteSet(DOMAIN d)
  BY IssuesAreListed, ListPlaces DEF Listed
<1>2. f \in Surjection(DOMAIN d, T)
  <2>1. f \in [DOMAIN d -> T] /\ \A x \in T : \E i \in DOMAIN d : f[i] = x
    OBVIOUS
  <2>. HIDE DEF f, T
  <2>. QED BY <2>1 DEF Surjection
<1>3. \A x \in T : IsFiniteSet(x) /\ x \subseteq Int
  <2>. SUFFICES ASSUME NEW i \in DOMAIN d PROVE IsFiniteSet(d[i].labels) /\ d[i].labels \subseteq Int
    OBVIOUS
  <2>1. d[i] \in Issue
    BY IssuesAreListed
  <2>2. d[i].labels \subseteq Labels /\ Labels \subseteq Int
    BY <2>1, AuditAssumption DEF Issue
  <2>. QED BY <2>2, CurationAssumption
<1>4. LabelsIn(d) = UNION T
  BY DEF LabelsIn
<1>. HIDE DEF f, T
<1>5. IsFiniteSet(T)
  BY <1>1, <1>2, FS_Surjection
<1>. QED BY <1>3, <1>4, <1>5, FS_UNION

\* Those of an audit that agrees with the dataset are.
LEMMA AuditedAreFinite ==
    ASSUME NEW d \in Datasets, NEW a, AgreesWithAudit(d, a)
    PROVE  IsFiniteSet(AuditedLabels(a))
  BY LabelsAreFinite DEF AgreesWithAudit, LabelsIn

-----------------------------------------------------------------------------
(* The directory of a model dataset.                                       *)

\* A directory with a manifest, a label map, a report and a sequence of records.
Fields == {"validation", "test", "written", "targets", "labels", "records", "report"}
ReportFields == {"validation", "test", "global", "splits", "warnings"}
Filed(a) ==
    /\ a = [f \in Fields |-> a[f]] /\ a.report = [f \in ReportFields |-> a.report[f]]
    /\ Listed(a.records)

\* The records of a dataset are finitely many, and sorted like OrderedBefore.
LEMMA RecordsAreOrdered ==
    ASSUME NEW d \in Datasets, NEW canonical, NEW c
    PROVE  LET records == {RecordOf(d, id, canonical, c) : id \in DOMAIN d}
           IN IsFiniteSet(records) /\ Orders(RecordOrder(records), records)
<1>. DEFINE records == {RecordOf(d, id, canonical, c) : id \in DOMAIN d}
            f == [id \in DOMAIN d |-> RecordOf(d, id, canonical, c)]
<1>1. IsFiniteSet(records)
  <2>1. f \in Surjection(DOMAIN d, records)
    <3>1. f \in [DOMAIN d -> records]
      OBVIOUS
    <3>2. \A r \in records : \E id \in DOMAIN d : f[id] = r
      OBVIOUS
    <3>. HIDE DEF records, f
    <3>. QED BY <3>1, <3>2 DEF Surjection
  <2>2. IsFiniteSet(DOMAIN d)
    <3>1. Len(d) \in Int /\ DOMAIN d = 1..Len(d)
      BY IssuesAreListed
    <3>. QED BY <3>1, FS_Interval
  <2>. HIDE DEF records, f
  <2>. QED BY <2>1, <2>2, FS_Surjection
<1>2. ASSUME NEW r \in records
      PROVE  r.id \in Int /\ r.created \in Int /\ r = RecordOf(d, r.id, canonical, c)
  <2>1. PICK id \in DOMAIN d : r = RecordOf(d, id, canonical, c)
    OBVIOUS
  <2>2. id \in Int /\ d[id].created \in Int
    BY IssuesAreListed
  <2>3. r.id = id /\ r.created = d[id].created
    BY <2>1 DEF RecordOf
  <2>. QED BY <2>1, <2>2, <2>3
<1>3. \A r, s \in records : r # s => r.id # s.id
  BY <1>2
<1>. HIDE DEF records
<1>4. \A r, s \in records : <<r, s>> \in RecordOrder(records) <=> OrderedBefore(r, s)
  BY DEF RecordOrder
<1>5. Orders(RecordOrder(records), records)
  BY <1>2, <1>3, <1>4 DEF Orders, OrderedBefore
<1>. QED BY <1>1, <1>5 DEF records

\* A report has its parts.
LEMMA ReportIsFiled ==
    ASSUME NEW records, NEW canonical, NEW c
    PROVE  LET report == SplitReport(records, canonical, c)
           IN report = [f \in ReportFields |-> report[f]]
<1>. DEFINE splits == [name \in SplitNames |-> SplitStatistics(records, name, canonical)]
            positives == [name \in SplitNames |-> splits[name].positives]
            global == GlobalStatistics(records, canonical)
            warnings == SupportWarnings(positives, c)
<1>1. SplitReport(records, canonical, c)
         = [validation |-> c.validation, test |-> c.test, global |-> global,
            splits |-> splits, warnings |-> warnings]
  BY DEF SplitReport
<1>. HIDE DEF splits, positives, global, warnings
<1>. QED BY <1>1 DEF ReportFields

\* What is staged is a directory.
LEMMA StagedIsFiled ==
    ASSUME NEW d \in Datasets, NEW pol, NEW c
    PROVE  Filed(ArtifactOf(d, pol, c))
<1>. DEFINE canonical == pol.coverage.included
            set == {RecordOf(d, id, canonical, c) : id \in DOMAIN d}
            records == TransformIssues(d, canonical, c)
            report == SplitReport(records, canonical, c)
            a == ArtifactOf(d, pol, c)
<1>1. SortedBy(set, RecordOrder(set)) \in Seq(set)
  BY RecordsAreOrdered, Sorting
<1>2. records = SortedBy(set, RecordOrder(set))
  BY DEF TransformIssues
<1>3. Listed(records)
  <2>. HIDE DEF set, records
  <2>. QED BY <1>1, <1>2 DEF Listed
<1>4. a = [validation |-> c.validation, test |-> c.test, written |-> Len(records),
           targets |-> Len(canonical), labels |-> canonical, records |-> records,
           report |-> report]
  BY DEF ArtifactOf
<1>5. report = [f \in ReportFields |-> report[f]]
  BY ReportIsFiled
<1>. HIDE DEF records, canonical, report, a
<1>6. a = [f \in Fields |-> a[f]]
  BY <1>4 DEF Fields
<1>7. a.records = records /\ a.report = report
  BY <1>4
<1>8. Filed(a)
  BY <1>3, <1>5, <1>6, <1>7 DEF Filed
<1>. QED BY <1>8 DEF a

\* What was changed in the directory is still one.
LEMMA AlteredIsFiled ==
    ASSUME Filed(artifact), NEW a \in AlteredForms
    PROVE  Filed(a)
<1>1. PICK S : artifact.records \in Seq(S)
  BY DEF Filed, Listed
<1>2. DOMAIN artifact = Fields /\ DOMAIN artifact.report = ReportFields
  BY DEF Filed
<1>3. ASSUME NEW t \in OtherRecords PROVE Listed(t)
  <2>. DEFINE records == artifact.records
  <2>1. CASE \E k \in DOMAIN records : t = RemoveAt(records, k)
    <3>1. PICK k \in DOMAIN records : t = RemoveAt(records, k)
      BY <2>1
    <3>2. k \in 1..Len(records)
      BY <1>1
    <3>3. SubSeq(records, 1, k - 1) \in Seq(S) /\ SubSeq(records, k + 1, Len(records)) \in Seq(S)
      BY <1>1, <3>2, SubSeqProperties
    <3>4. t \in Seq(S)
      BY <3>1, <3>3, ConcatProperties DEF RemoveAt
    <3>. QED BY <3>4 DEF Listed
  <2>2. CASE \E k \in DOMAIN records : \E r : t = [records EXCEPT ![k] = r]
    <3>. PICK k \in DOMAIN records : \E r : t = [records EXCEPT ![k] = r]
      BY <2>2
    <3>1. PICK r : t = [records EXCEPT ![k] = r]
      OBVIOUS
    <3>2. t \in Seq(S \cup {r})
      BY <1>1, <3>1
    <3>. QED BY <3>2 DEF Listed
  <2>3. \/ \E k \in DOMAIN records : t = RemoveAt(records, k)
        \/ \E k \in DOMAIN records, name \in SplitNames : t = [records EXCEPT ![k].split = name]
        \/ \E k \in DOMAIN records, labels \in SUBSET ToSet(artifact.labels) :
              t = [records EXCEPT ![k] = Relabelled(@, labels)]
    BY <1>3 DEF OtherRecords
  <2>. QED BY <2>1, <2>2, <2>3
<1>4. ASSUME NEW f \in Fields, NEW x, a = [artifact EXCEPT ![f] = x]
      PROVE  a = [g \in Fields |-> a[g]] /\ a[f] = x /\ \A g \in Fields \ {f} : a[g] = artifact[g]
  BY <1>2, <1>4 DEF Filed
<1>5. ASSUME NEW report, report = [f \in ReportFields |-> report[f]],
             a = [artifact EXCEPT !.report = report]
      PROVE  Filed(a)
  BY <1>4, <1>5 DEF Filed, Fields
<1>6. CASE \E t \in OtherRecords : a \in WithRecords(t)
  <2>1. PICK t \in OtherRecords : a \in WithRecords(t)
    BY <1>6
  <2>. DEFINE report == SplitReport(t, artifact.labels, split)
  <2>2. report = [f \in ReportFields |-> report[f]]
    BY ReportIsFiled
  <2>3. Listed(t)
    BY <1>3
  <2>4. \/ a = [artifact EXCEPT !.records = t]
        \/ a = [artifact EXCEPT !.records = t, !.written = Len(t), !.report = report]
    BY <2>1 DEF WithRecords
  <2>. HIDE DEF report
  <2>5. /\ a = [g \in Fields |-> a[g]] /\ a.records = t
        /\ a.report = artifact.report \/ a.report = report
    BY <1>2, <2>4 DEF Fields, Filed
  <2>. QED BY <2>2, <2>3, <2>5 DEF Filed
<1>7. CASE \E report \in OtherReports : a = [artifact EXCEPT !.report = report]
  <2>1. PICK report \in OtherReports : a = [artifact EXCEPT !.report = report]
    BY <1>7
  <2>2. \E f \in ReportFields : \E x : report = [artifact.report EXCEPT ![f] = x]
    <3>1. CASE report = [artifact.report EXCEPT !.global.assignments = @ + 1]
      <4>1. report = [artifact.report EXCEPT !["global"] =
                        [artifact.report.global EXCEPT !.assignments = @ + 1]]
        BY <3>1
      <4>. QED BY <4>1 DEF ReportFields
    <3>2. ASSUME NEW name \in SplitNames,
                 \/ report = [artifact.report EXCEPT !.splits[name].allZero = @ + 1]
                 \/ report = [artifact.report EXCEPT !.splits[name].latest = None]
          PROVE  \E x : report = [artifact.report EXCEPT !["splits"] = x]
      <4>1. \/ report = [artifact.report EXCEPT !["splits"] =
                           [artifact.report.splits EXCEPT ![name].allZero = @ + 1]]
            \/ report = [artifact.report EXCEPT !["splits"] =
                           [artifact.report.splits EXCEPT ![name].latest = None]]
        BY <3>2
      <4>. QED BY <4>1
    <3>. QED BY <2>1, <3>1, <3>2 DEF OtherReports, ReportFields
  <2>3. report = [f \in ReportFields |-> report[f]]
    BY <1>2, <2>2 DEF Filed
  <2>. QED BY <1>5, <2>1, <2>3
<1>8. CASE a = [artifact EXCEPT !.labels = Reverse(@)]
  BY <1>4, <1>8 DEF Filed, Fields
<1>9. \/ \E t \in OtherRecords : a \in WithRecords(t)
      \/ \E report \in OtherReports : a = [artifact EXCEPT !.report = report]
      \/ a = [artifact EXCEPT !.labels = Reverse(@)]
  <2>. DEFINE U == UNION {WithRecords(records) : records \in OtherRecords}
              R == {[artifact EXCEPT !.report = report] : report \in OtherReports}
              x == [artifact EXCEPT !.labels = Reverse(@)]
  <2>1. a \in U \cup R \cup {x}
    BY DEF AlteredForms
  <2>. HIDE DEF U, R, x
  <2>2. a \in U \/ a \in R \/ a = x
    BY <2>1
  <2>. QED BY <2>2 DEF U, R, x
<1>. QED BY <1>6, <1>7, <1>8, <1>9

\* The first of a finite set that is ordered.
LEMMA FirstOfMany ==
    ASSUME NEW S, IsFiniteSet(S), S # {}, NEW before, Orders(before, S)
    PROVE  \E x \in S : \A y \in S : y = x \/ <<x, y>> \in before
<1>1. Cardinality(S) \in Nat /\ Cardinality(S) # 0
  BY FS_CardinalityType, FS_EmptySet
<1>2. 0 \in 0..(Cardinality(S) - 1)
  BY <1>1
<1>3. PICK x \in S : Rank(S, before, x) = 0
  BY <1>2, Ranks
<1>4. ASSUME NEW y \in S, y # x PROVE <<x, y>> \in before
  <2>1. Rank(S, before, y) \in 0..(Cardinality(S) - 1)
    BY Ranks
  <2>2. Rank(S, before, y) # 0
    BY <1>3, <1>4, RanksDiffer
  <2>3. Rank(S, before, x) < Rank(S, before, y)
    BY <1>3, <2>1, <2>2
  <2>. QED BY <2>3, Ranks
<1>. QED BY <1>4

\* The least and the greatest number of a set.
LEMMA Extremes ==
    ASSUME NEW S, IsFiniteSet(S), S # {}, S \subseteq Int
    PROVE  /\ Min(S) \in S /\ \A y \in S : Min(S) =< y
           /\ Max(S) \in S /\ \A y \in S : y =< Max(S)
<1>. DEFINE up == {p \in S \X S : p[1] < p[2]}
            down == {p \in S \X S : p[1] > p[2]}
<1>1. \A x, y \in S : /\ <<x, y>> \in up <=> x < y
                      /\ <<x, y>> \in down <=> x > y
  OBVIOUS
<1>. HIDE DEF up, down
<1>2. Orders(up, S) /\ Orders(down, S)
  BY <1>1 DEF Orders
<1>3. \E x \in S : \A y \in S : x =< y
  <2>1. \E x \in S : \A y \in S : y = x \/ <<x, y>> \in up
    BY <1>2, FirstOfMany
  <2>2. PICK x \in S : \A y \in S : y = x \/ <<x, y>> \in up
    BY <2>1
  <2>3. \A y \in S : y = x \/ x < y
    BY <1>1, <2>2
  <2>4. \A y \in S : x =< y
    BY <2>3
  <2>. QED BY <2>4
<1>4. \E x \in S : \A y \in S : x >= y
  <2>1. \E x \in S : \A y \in S : y = x \/ <<x, y>> \in down
    BY <1>2, FirstOfMany
  <2>2. PICK x \in S : \A y \in S : y = x \/ <<x, y>> \in down
    BY <2>1
  <2>3. \A y \in S : y = x \/ x > y
    BY <1>1, <2>2
  <2>4. \A y \in S : x >= y
    BY <2>3
  <2>. QED BY <2>4
<1>5. Min(S) \in S /\ \A y \in S : Min(S) =< y
  BY <1>3 DEF Min
<1>6. Max(S) \in S /\ \A y \in S : Max(S) >= y
  BY <1>4 DEF Max
<1>. QED BY <1>5, <1>6

\* With one number more.
LEMMA ExtremesOfMore ==
    ASSUME NEW S, IsFiniteSet(S), S \subseteq Int, NEW t \in Int, None \notin S
    PROVE  /\ Min(S \cup {t}) = Earlier(t, IF S = {} THEN None ELSE Min(S))
           /\ Max(S \cup {t}) = Later(t, IF S = {} THEN None ELSE Max(S))
<1>. DEFINE T == S \cup {t}
<1>1. IsFiniteSet(T) /\ T # {} /\ T \subseteq Int
  BY FS_AddElement
<1>2. /\ Min(T) \in T /\ \A y \in T : Min(T) =< y
      /\ Max(T) \in T /\ \A y \in T : y =< Max(T)
  BY <1>1, Extremes
<1>3. CASE S = {}
  <2>1. Min(T) = t /\ Max(T) = t
    BY <1>2, <1>3
  <2>. QED BY <1>3, <2>1 DEF Earlier, Later
<1>4. CASE S # {}
  <2>1. /\ Min(S) \in S /\ \A y \in S : Min(S) =< y
        /\ Max(S) \in S /\ \A y \in S : y =< Max(S)
    BY <1>4, Extremes
  <2>2. Min(S) # None /\ Max(S) # None /\ Min(S) \in Int /\ Max(S) \in Int
    BY <2>1
  <2>3. Min(T) = IF t < Min(S) THEN t ELSE Min(S)
    <3>1. Min(T) \in Int /\ Min(T) =< t /\ Min(T) =< Min(S) /\ (Min(T) = t \/ Min(S) =< Min(T))
      BY <1>1, <1>2, <2>1
    <3>. HIDE DEF T
    <3>. QED BY <2>2, <3>1
  <2>4. Max(T) = IF t > Max(S) THEN t ELSE Max(S)
    <3>1. Max(T) \in Int /\ t =< Max(T) /\ Max(S) =< Max(T) /\ (Max(T) = t \/ Max(T) =< Max(S))
      BY <1>1, <1>2, <2>1
    <3>. HIDE DEF T
    <3>. QED BY <2>2, <3>1
  <2>. QED BY <1>4, <2>2, <2>3, <2>4 DEF Earlier, Later
<1>. QED BY <1>3, <1>4

-----------------------------------------------------------------------------
(* What the validator has read of the records.                             *)

Smaller == {ss \in Nat \X Nat : ss[1] < ss[2]}

\* There is no infinite descent among the numbers.
LEMMA SmallerIsWellFounded == IsWellFoundedOn(Smaller, Nat)
  BY NatLessThanWellFounded DEF OpToRel, Smaller

\* Of the numbers that are not in S there is a first one.
LEMMA FirstMissing ==
    ASSUME NEW S, Nat \ S # {}
    PROVE  \E m \in Nat \ S : \A k \in Nat : k < m => k \in S
<1>1. PICK m \in Nat \ S : \A k \in Nat \ S : <<k, m>> \notin Smaller
  BY SmallerIsWellFounded, WFMin
<1>. QED BY <1>1 DEF Smaller

\* A list that is sorted is the one that sorting gives.
LEMMA SortedIsUnique ==
    ASSUME NEW S, IsFiniteSet(S), NEW before, Orders(before, S), NEW s, Listed(s),
           \A k \in DOMAIN s : s[k] \in S, \A x \in S : \E k \in DOMAIN s : s[k] = x,
           \A k \in DOMAIN s : k > 1 => <<s[k - 1], s[k]>> \in before
    PROVE  s = SortedBy(S, before)
<1>1. Len(s) \in Nat /\ DOMAIN s = 1..Len(s)
  BY ListPlaces
<1>2. \A k \in 1..Len(s), j \in 1..Len(s) : j < k => <<s[j], s[k]>> \in before
  <2>. DEFINE G == {k \in Nat : k \in 1..Len(s) =>
                       \A j \in 1..Len(s) : j < k => <<s[j], s[k]>> \in before}
  <2>1. SUFFICES ASSUME Nat \ G # {} PROVE FALSE
    BY <1>1
  <2>2. PICK m \in Nat \ G : \A k \in Nat : k < m => k \in G
    <3>. HIDE DEF G
    <3>. QED BY <2>1, FirstMissing
  <2>3. m \in 1..Len(s)
    OBVIOUS
  <2>4. PICK j \in 1..Len(s) : j < m /\ <<s[j], s[m]>> \notin before
    OBVIOUS
  <2>5. m - 1 \in Nat /\ m - 1 \in 1..Len(s) /\ m > 1 /\ j \in Nat
    BY <1>1, <2>3, <2>4
  <2>6. <<s[m - 1], s[m]>> \in before
    BY <1>1, <2>3, <2>5
  <2>7. j < m - 1
    BY <2>4, <2>5, <2>6
  <2>8. m - 1 \in G
    BY <2>2, <2>5
  <2>9. <<s[j], s[m - 1]>> \in before
    BY <2>4, <2>5, <2>7, <2>8
  <2>10. s[j] \in S /\ s[m] \in S /\ s[m - 1] \in S
    BY <1>1, <2>3, <2>4, <2>5
  <2>. QED BY <2>4, <2>6, <2>9, <2>10 DEF Orders
<1>3. \A j, k \in 1..Len(s) : j # k => s[j] # s[k]
  <2>. SUFFICES ASSUME NEW j \in 1..Len(s), NEW k \in 1..Len(s), j < k PROVE s[j] # s[k]
    BY <1>1
  <2>1. <<s[j], s[k]>> \in before /\ s[j] \in S /\ s[k] \in S
    BY <1>1, <1>2
  <2>. QED BY <2>1 DEF Orders
<1>4. Cardinality(S) = Len(s)
  <2>1. s \in Bijection(1..Len(s), S)
    <3>1. s \in [1..Len(s) -> S]
      <4>1. s = [k \in 1..Len(s) |-> s[k]]
        <5>1. PICK T : s \in Seq(T)
          BY DEF Listed
        <5>. QED BY <5>1
      <4>. QED BY <1>1, <4>1
    <3>. QED BY <1>1, <1>3, <3>1 DEF Bijection, Injection, Surjection, IsInjective
  <2>2. IsFiniteSet(1..Len(s)) /\ Cardinality(1..Len(s)) = Len(s)
    <3>1. Len(s) \in Int /\ 1 \in Int /\ Len(s) >= 0
      BY <1>1
    <3>2. /\ IsFiniteSet(1..Len(s))
          /\ Cardinality(1..Len(s)) = IF 1 > Len(s) THEN 0 ELSE Len(s) - 1 + 1
      BY <3>1, FS_Interval
    <3>. QED BY <3>1, <3>2
  <2>. QED BY <2>1, <2>2, FS_Bijection DEF ExistsBijection
<1>5. ASSUME NEW k \in 1..Len(s) PROVE Rank(S, before, s[k]) = k - 1
  <2>1. Preceding(S, before, s[k]) = {s[j] : j \in 1..(k - 1)}
    <3>1. ASSUME NEW x \in Preceding(S, before, s[k]) PROVE x \in {s[j] : j \in 1..(k - 1)}
      <4>1. x \in S /\ <<x, s[k]>> \in before
        BY DEF Preceding
      <4>2. PICK j \in 1..Len(s) : s[j] = x
        BY <1>1, <4>1
      <4>3. j # k /\ ~(k < j)
        BY <1>1, <1>2, <4>1, <4>2 DEF Orders
      <4>4. j \in 1..(k - 1)
        BY <1>1, <4>2, <4>3
      <4>. QED BY <4>2, <4>4
    <3>2. ASSUME NEW j \in 1..(k - 1) PROVE s[j] \in Preceding(S, before, s[k])
      <4>1. j \in 1..Len(s) /\ j < k
        BY <1>1
      <4>. QED BY <1>1, <1>2, <4>1 DEF Preceding
    <3>. QED BY <3>1, <3>2
  <2>. DEFINE f == [j \in 1..(k - 1) |-> s[j]]
              P == {s[j] : j \in 1..(k - 1)}
  <2>2. f \in Bijection(1..(k - 1), P)
    <3>1. f \in [1..(k - 1) -> P] /\ \A x \in P : \E j \in 1..(k - 1) : f[j] = x
      OBVIOUS
    <3>2. \A i, j \in 1..(k - 1) : f[i] = f[j] => i = j
      <4>1. 1..(k - 1) \subseteq 1..Len(s)
        BY <1>1
      <4>. QED BY <1>3, <4>1
    <3>. HIDE DEF f, P
    <3>. QED BY <3>1, <3>2 DEF Bijection, Injection, Surjection, IsInjective
  <2>3. IsFiniteSet(1..(k - 1)) /\ Cardinality(1..(k - 1)) = k - 1
    <3>1. k - 1 \in Int /\ 1 \in Int /\ k - 1 >= 0
      BY <1>1
    <3>2. /\ IsFiniteSet(1..(k - 1))
          /\ Cardinality(1..(k - 1)) = IF 1 > k - 1 THEN 0 ELSE (k - 1) - 1 + 1
      BY <3>1, FS_Interval
    <3>. QED BY <3>1, <3>2
  <2>4. Cardinality(P) = k - 1
    <3>. HIDE DEF f, P
    <3>. QED BY <2>2, <2>3, FS_Bijection DEF ExistsBijection
  <2>. QED BY <2>1, <2>4 DEF Rank
<1>. DEFINE z == SortedBy(S, before)
<1>6. /\ z \in Seq(S) /\ DOMAIN z = 1..Len(s)
      /\ \A k \in 1..Len(s) : z[k] \in S /\ Rank(S, before, z[k]) = k - 1
  BY <1>4, Sorting
<1>. HIDE DEF z
<1>7. \A k \in 1..Len(s) : z[k] = s[k]
  BY <1>1, <1>5, <1>6, RanksDiffer
<1>8. s = z
  <2>1. PICK T : s \in Seq(T)
    BY DEF Listed
  <2>. QED BY <1>1, <1>6, <1>7, <2>1
<1>. QED BY <1>8 DEF z

\* One more of the first n numbers.
LEMMA CountsOn ==
    ASSUME NEW n \in Nat, n # 0, NEW T
    PROVE  /\ n - 1 \in Nat /\ IsFiniteSet((1..n) \cap T)
           /\ Cardinality((1..(n - 1)) \cap T) \in Nat
           /\ Cardinality((1..n) \cap T)
                 = Cardinality((1..(n - 1)) \cap T) + (IF n \in T THEN 1 ELSE 0)
<1>. DEFINE before == (1..(n - 1)) \cap T
<1>1. IsFiniteSet(1..(n - 1)) /\ IsFiniteSet(1..n)
  <2>1. n - 1 \in Int /\ n \in Int /\ 1 \in Int
    OBVIOUS
  <2>. QED BY <2>1, FS_Interval
<1>2. IsFiniteSet(before) /\ Cardinality(before) \in Nat /\ IsFiniteSet((1..n) \cap T)
  <2>1. before \subseteq 1..(n - 1) /\ (1..n) \cap T \subseteq 1..n
    OBVIOUS
  <2>. HIDE DEF before
  <2>. QED BY <1>1, <2>1, FS_Subset, FS_CardinalityType
<1>3. n \notin before
  OBVIOUS
<1>4. (1..n) \cap T = IF n \in T THEN before \cup {n} ELSE before
  OBVIOUS
<1>5. Cardinality(before \cup {n}) = Cardinality(before) + 1
  <2>. HIDE DEF before
  <2>. QED BY <1>2, <1>3, FS_AddElement
<1>. HIDE DEF before
<1>6. Cardinality((1..n) \cap T) = Cardinality(before) + (IF n \in T THEN 1 ELSE 0)
  BY <1>2, <1>4, <1>5
<1>. QED BY <1>2, <1>6 DEF before

\* The statistics of the first n records.
Here(records, n, name) == {k \in 1..n : records[k].split = name}

SplitUpTo(records, n, name, targets) ==
    LET here == Here(records, n, name)
        created == {records[k].created : k \in here}
    IN [count |-> Cardinality(here),
        allZero |-> Cardinality({k \in here : Ones(records[k].target) = 0}),
        earliest |-> IF here = {} THEN None ELSE Min(created),
        latest |-> IF here = {} THEN None ELSE Max(created),
        histogram |-> [m \in {Ones(records[k].target) : k \in here} |->
                          Cardinality({k \in here : Ones(records[k].target) = m})],
        positives |-> [place \in 1..targets |->
                          Cardinality({k \in here : records[k].target[place] = 1})]]

UpTo(records, n, targets) ==
    [total |-> n,
     withTarget |-> Cardinality({k \in 1..n : Ones(records[k].target) > 0}),
     allZero |-> Cardinality({k \in 1..n : Ones(records[k].target) = 0}),
     assignments |-> Cardinality({p \in (1..n) \X (1..targets) :
                                     records[p[1]].target[p[2]] = 1}),
     splits |-> [name \in SplitNames |-> SplitUpTo(records, n, name, targets)]]

\* A record as it is read, with so many targets.
Readable(record, targets) ==
    /\ record.created \in Times /\ record.split \in SplitNames
    /\ record.target \in [1..targets -> {0, 1}]

\* What is counted in a record is a number.
LEMMA OnesAreCounted ==
    ASSUME NEW targets \in Nat, NEW vector \in [1..targets -> {0, 1}]
    PROVE  Ones(vector) \in Nat
<1>1. {k \in DOMAIN vector : vector[k] = 1} \in SUBSET (1..targets)
  OBVIOUS
<1>2. IsFiniteSet(1..targets)
  <2>1. 1 \in Int /\ targets \in Int
    OBVIOUS
  <2>. QED BY <2>1, FS_Interval
<1>. QED BY <1>1, <1>2, FS_Subset, FS_CardinalityType DEF Ones

\* The statistics of a split grow as the validator's do.
LEMMA SplitReadOn ==
    ASSUME NEW records, NEW targets \in Nat, NEW n \in Nat, n # 0,
           \A k \in 1..n : Readable(records[k], targets), NEW name
    PROVE  SplitUpTo(records, n, name, targets)
             = IF records[n].split = name
               THEN ScanSplit(SplitUpTo(records, n - 1, name, targets), records[n])
               ELSE SplitUpTo(records, n - 1, name, targets)
<1>. DEFINE before == Here(records, n - 1, name)
            here == Here(records, n, name)
            ones(k) == Ones(records[k].target)
            old == SplitUpTo(records, n - 1, name, targets)
            record == records[n]
<1>1. n - 1 \in Nat /\ n \in 1..n
  OBVIOUS
<1>2. CASE record.split # name
  <2>1. here = before
    BY <1>1, <1>2 DEF Here
  <2>. HIDE DEF here, before
  <2>2. SplitUpTo(records, n, name, targets) = old
    BY <2>1 DEF SplitUpTo, here, before
  <2>. QED BY <1>2, <2>2
<1>3. CASE record.split = name
  <2>1. here = before \cup {n} /\ n \notin before
    BY <1>1, <1>3 DEF Here
  <2>2. ASSUME NEW T
        PROVE  /\ Cardinality({k \in before : k \in T}) \in Nat
               /\ Cardinality({k \in here : k \in T})
                    = Cardinality({k \in before : k \in T}) + (IF n \in T THEN 1 ELSE 0)
    <3>. DEFINE U == {k \in T : records[k].split = name}
    <3>1. /\ {k \in before : k \in T} = (1..(n - 1)) \cap U
          /\ {k \in here : k \in T} = (1..n) \cap U
          /\ n \in T <=> n \in U
      BY <1>3 DEF Here
    <3>. HIDE DEF U, before, here
    <3>. QED BY <3>1, CountsOn
  <2>3. IsFiniteSet(before)
    <3>1. before = (1..(n - 1)) \cap before /\ before \subseteq (1..n) \cap before
      BY DEF Here
    <3>2. IsFiniteSet((1..n) \cap before)
      BY CountsOn
    <3>. HIDE DEF before
    <3>. QED BY <3>1, <3>2, FS_Subset
  <2>4. \A k \in 1..n : ones(k) \in Nat /\ records[k].created \in Times
    BY OnesAreCounted DEF Readable
  <2>5. before \subseteq 1..n
    BY <1>1 DEF Here
  <2>. HIDE DEF here, before
  <2>6. Cardinality(here) = Cardinality(before) + 1
    BY <2>1, <2>3, FS_AddElement
  <2>7. Cardinality({k \in here : ones(k) = 0})
          = Cardinality({k \in before : ones(k) = 0}) + (IF ones(n) = 0 THEN 1 ELSE 0)
    <3>. DEFINE T == {k \in 1..n : ones(k) = 0}
    <3>1. /\ {k \in here : k \in T} = {k \in here : ones(k) = 0}
          /\ {k \in before : k \in T} = {k \in before : ones(k) = 0}
          /\ n \in T <=> ones(n) = 0
      BY <1>1, <2>1, <2>5
    <3>. HIDE DEF T, ones
    <3>. QED BY <2>2, <3>1
  <2>8. ASSUME NEW place \in 1..targets
        PROVE  Cardinality({k \in here : records[k].target[place] = 1})
                 = Cardinality({k \in before : records[k].target[place] = 1})
                      + record.target[place]
    <3>. DEFINE T == {k \in 1..n : records[k].target[place] = 1}
    <3>1. /\ {k \in here : k \in T} = {k \in here : records[k].target[place] = 1}
          /\ {k \in before : k \in T} = {k \in before : records[k].target[place] = 1}
          /\ n \in T <=> record.target[place] = 1
      BY <1>1, <2>1, <2>5
    <3>2. record.target[place] \in {0, 1}
      BY <1>1 DEF Readable
    <3>. HIDE DEF T
    <3>3. /\ Cardinality({k \in before : k \in T}) \in Nat
          /\ Cardinality({k \in here : k \in T})
                    = Cardinality({k \in before : k \in T}) + (IF n \in T THEN 1 ELSE 0)
      BY <2>2
    <3>4. (IF n \in T THEN 1 ELSE 0) = record.target[place]
      BY <3>1, <3>2
    <3>. QED BY <3>1, <3>3, <3>4
  <2>9. ASSUME NEW m
        PROVE  /\ Cardinality({k \in here : ones(k) = m})
                    = Cardinality({k \in before : ones(k) = m}) + (IF ones(n) = m THEN 1 ELSE 0)
               /\ Cardinality({k \in before : ones(k) = m}) \in Nat
    <3>. DEFINE T == {k \in 1..n : ones(k) = m}
    <3>1. /\ {k \in here : k \in T} = {k \in here : ones(k) = m}
          /\ {k \in before : k \in T} = {k \in before : ones(k) = m}
          /\ n \in T <=> ones(n) = m
      BY <1>1, <2>1, <2>5
    <3>. HIDE DEF T, ones
    <3>. QED BY <2>2, <3>1
  <2>. DEFINE created == {records[k].created : k \in before}
              values == {ones(k) : k \in before}
              histogram == [m \in values |-> Cardinality({k \in before : ones(k) = m})]
              positives == [place \in 1..targets |->
                              Cardinality({k \in before : records[k].target[place] = 1})]
  <2>10. /\ {records[k].created : k \in here} = created \cup {record.created}
         /\ {ones(k) : k \in here} = values \cup {ones(n)}
    BY <2>1
  <2>11. /\ Min(created \cup {record.created})
              = Earlier(record.created, IF before = {} THEN None ELSE Min(created))
         /\ Max(created \cup {record.created})
              = Later(record.created, IF before = {} THEN None ELSE Max(created))
    <3>1. IsFiniteSet(created)
      <4>. DEFINE f == [k \in before |-> records[k].created]
      <4>1. f \in [before -> created] /\ \A t \in created : \E k \in before : f[k] = t
        OBVIOUS
      <4>. HIDE DEF f, created
      <4>2. f \in Surjection(before, created)
        BY <4>1 DEF Surjection
      <4>. QED BY <2>3, <4>2, FS_Surjection
    <3>2. created \subseteq Times /\ record.created \in Times /\ (created = {}) = (before = {})
      BY <1>1, <2>4, <2>5
    <3>3. created \subseteq Int /\ None \notin created /\ record.created \in Int
      BY <3>2, AuditAssumption
    <3>. HIDE DEF created
    <3>. QED BY <3>1, <3>2, <3>3, ExtremesOfMore
  <2>12. [m \in values \cup {ones(n)} |-> Cardinality({k \in here : ones(k) = m})]
           = [m \in DOMAIN histogram \cup {ones(n)} |->
                 IF m = ones(n)
                 THEN (IF ones(n) \in DOMAIN histogram THEN histogram[ones(n)] ELSE 0) + 1
                 ELSE histogram[m]]
    <3>1. ASSUME NEW m \in values \cup {ones(n)}
          PROVE  Cardinality({k \in here : ones(k) = m})
                   = IF m = ones(n)
                     THEN (IF ones(n) \in values THEN histogram[ones(n)] ELSE 0) + 1
                     ELSE histogram[m]
      <4>1. CASE m # ones(n)
        <5>1. m \in values /\ histogram[m] = Cardinality({k \in before : ones(k) = m})
          BY <4>1
        <5>2. Cardinality({k \in here : ones(k) = m})
                = Cardinality({k \in before : ones(k) = m})
          <6>1. (IF ones(n) = m THEN 1 ELSE 0) = 0
            BY <4>1
          <6>. HIDE DEF ones
          <6>. QED BY <2>9, <6>1
        <5>. HIDE DEF histogram, values, ones
        <5>. QED BY <4>1, <5>1, <5>2
      <4>2. CASE m = ones(n) /\ m \in values
        BY <2>9, <4>2
      <4>3. CASE m = ones(n) /\ m \notin values
        <5>1. {k \in before : ones(k) = m} = {}
          BY <4>3
        <5>2. Cardinality({k \in before : ones(k) = m}) = 0
          BY <5>1, FS_EmptySet
        <5>. QED BY <2>9, <4>3, <5>2
      <4>. QED BY <4>1, <4>2, <4>3
    <3>2. DOMAIN histogram = values
      OBVIOUS
    <3>. HIDE DEF values, histogram, ones
    <3>. QED BY <3>1, <3>2
  <2>13. [place \in 1..targets |-> Cardinality({k \in here : records[k].target[place] = 1})]
           = [place \in DOMAIN positives |-> positives[place] + record.target[place]]
    <3>1. DOMAIN positives = 1..targets
      OBVIOUS
    <3>. QED BY <2>8, <3>1
  <2>14. old = [count |-> Cardinality(before),
                allZero |-> Cardinality({k \in before : ones(k) = 0}),
                earliest |-> IF before = {} THEN None ELSE Min(created),
                latest |-> IF before = {} THEN None ELSE Max(created),
                histogram |-> histogram, positives |-> positives]
    BY DEF SplitUpTo, before
  <2>15. SplitUpTo(records, n, name, targets)
           = [count |-> Cardinality(here),
              allZero |-> Cardinality({k \in here : ones(k) = 0}),
              earliest |-> Min(created \cup {record.created}),
              latest |-> Max(created \cup {record.created}),
              histogram |-> [m \in values \cup {ones(n)} |->
                                Cardinality({k \in here : ones(k) = m})],
              positives |-> [place \in 1..targets |->
                                Cardinality({k \in here : records[k].target[place] = 1})]]
    <3>1. here # {}
      BY <2>1
    <3>. HIDE DEF created, values
    <3>. QED BY <2>10, <3>1 DEF SplitUpTo, here
  <2>. HIDE DEF created, values, histogram, positives, old
  <2>16. SplitUpTo(records, n, name, targets) = ScanSplit(old, record)
    BY <2>6, <2>7, <2>11, <2>12, <2>13, <2>14, <2>15 DEF ScanSplit
  <2>. QED BY <1>3, <2>16 DEF old
<1>. QED BY <1>2, <1>3

\* The assignments of one record more.
LEMMA AssignmentsReadOn ==
    ASSUME NEW records, NEW targets \in Nat, NEW n \in Nat, n # 0,
           \A k \in 1..n : Readable(records[k], targets)
    PROVE  UpTo(records, n, targets).assignments
             = UpTo(records, n - 1, targets).assignments + Ones(records[n].target)
<1>. DEFINE A(m) == {p \in (1..m) \X (1..targets) : records[p[1]].target[p[2]] = 1}
            ones == {q \in 1..targets : records[n].target[q] = 1}
            new == {<<n, q>> : q \in ones}
            f == [q \in ones |-> <<n, q>>]
<1>1. n - 1 \in Nat /\ n \in 1..n
  OBVIOUS
<1>2. A(n) = A(n - 1) \cup new /\ A(n - 1) \cap new = {}
  BY <1>1
<1>3. IsFiniteSet(A(n - 1))
  <2>1. IsFiniteSet(1..(n - 1)) /\ IsFiniteSet(1..targets)
    <3>1. n - 1 \in Int /\ targets \in Int /\ 1 \in Int
      BY <1>1
    <3>. QED BY <3>1, FS_Interval
  <2>2. IsFiniteSet((1..(n - 1)) \X (1..targets))
    BY <2>1, FS_Product
  <2>3. A(n - 1) \subseteq (1..(n - 1)) \X (1..targets)
    OBVIOUS
  <2>. HIDE DEF A
  <2>. QED BY <2>2, <2>3, FS_Subset
<1>4. IsFiniteSet(ones) /\ Ones(records[n].target) = Cardinality(ones)
  <2>1. DOMAIN records[n].target = 1..targets
    BY <1>1 DEF Readable
  <2>2. IsFiniteSet(1..targets)
    <3>1. targets \in Int /\ 1 \in Int
      OBVIOUS
    <3>. QED BY <3>1, FS_Interval
  <2>3. ones \in SUBSET (1..targets)
    OBVIOUS
  <2>. QED BY <2>1, <2>2, <2>3, FS_Subset DEF Ones
<1>5. f \in Bijection(ones, new)
  <2>1. /\ f \in [ones -> new] /\ \A p \in new : \E q \in ones : f[q] = p
        /\ \A p, q \in ones : f[p] = f[q] => p = q
    OBVIOUS
  <2>. HIDE DEF f, ones, new
  <2>. QED BY <2>1 DEF Bijection, Injection, Surjection, IsInjective
<1>6. IsFiniteSet(new) /\ Cardinality(new) = Cardinality(ones)
  <2>. HIDE DEF f, ones, new
  <2>. QED BY <1>4, <1>5, FS_Bijection DEF ExistsBijection
<1>. HIDE DEF f, ones, new
<1>7. Cardinality(A(n)) = Cardinality(A(n - 1)) + Cardinality(new)
  <2>. HIDE DEF A
  <2>1. /\ Cardinality(A(n - 1) \cup new)
              = Cardinality(A(n - 1)) + Cardinality(new) - Cardinality(A(n - 1) \cap new)
        /\ Cardinality(A(n - 1)) \in Nat /\ Cardinality(new) \in Nat
    BY <1>3, <1>6, FS_Union, FS_CardinalityType
  <2>. QED BY <1>2, <2>1, FS_EmptySet
<1>8. \A m : UpTo(records, m, targets).assignments = Cardinality(A(m))
  BY DEF UpTo
<1>. HIDE DEF A
<1>. QED BY <1>4, <1>6, <1>7, <1>8

\* The statistics grow as the validator's do.
LEMMA ReadOn ==
    ASSUME NEW records, NEW targets \in Nat, NEW n \in Nat, n # 0,
           \A k \in 1..n : Readable(records[k], targets)
    PROVE  UpTo(records, n, targets) = Scan(UpTo(records, n - 1, targets), records[n])
<1>. DEFINE old == UpTo(records, n - 1, targets)
            new == UpTo(records, n, targets)
            record == records[n]
            ones == Ones(records[n].target)
            splits(m) == [name \in SplitNames |-> SplitUpTo(records, m, name, targets)]
<1>1. n \in 1..n /\ record.split \in SplitNames
  BY DEF Readable
<1>2. \A k \in 1..n : Ones(records[k].target) \in Nat
  BY OnesAreCounted DEF Readable
<1>3. new.withTarget = old.withTarget + (IF ones > 0 THEN 1 ELSE 0)
  <2>. DEFINE T == {k \in 1..n : Ones(records[k].target) > 0}
  <2>1. /\ {k \in 1..n : Ones(records[k].target) > 0} = (1..n) \cap T
        /\ {k \in 1..(n - 1) : Ones(records[k].target) > 0} = (1..(n - 1)) \cap T
        /\ n \in T <=> ones > 0
    BY <1>1
  <2>2. /\ new.withTarget = Cardinality((1..n) \cap T)
        /\ old.withTarget = Cardinality((1..(n - 1)) \cap T)
    BY <2>1 DEF UpTo
  <2>. HIDE DEF T, new, old, ones
  <2>3. Cardinality((1..n) \cap T)
          = Cardinality((1..(n - 1)) \cap T) + (IF n \in T THEN 1 ELSE 0)
    BY CountsOn
  <2>. QED BY <2>1, <2>2, <2>3
<1>4. new.allZero = old.allZero + (IF ones = 0 THEN 1 ELSE 0)
  <2>. DEFINE T == {k \in 1..n : Ones(records[k].target) = 0}
  <2>1. /\ {k \in 1..n : Ones(records[k].target) = 0} = (1..n) \cap T
        /\ {k \in 1..(n - 1) : Ones(records[k].target) = 0} = (1..(n - 1)) \cap T
        /\ n \in T <=> ones = 0
    BY <1>1
  <2>2. /\ new.allZero = Cardinality((1..n) \cap T)
        /\ old.allZero = Cardinality((1..(n - 1)) \cap T)
    BY <2>1 DEF UpTo
  <2>. HIDE DEF T, new, old, ones
  <2>3. Cardinality((1..n) \cap T)
          = Cardinality((1..(n - 1)) \cap T) + (IF n \in T THEN 1 ELSE 0)
    BY CountsOn
  <2>. QED BY <2>1, <2>2, <2>3
<1>5. new.assignments = old.assignments + ones
  BY AssignmentsReadOn
<1>6. splits(n) = [splits(n - 1) EXCEPT ![record.split] = ScanSplit(@, record)]
  <2>1. ASSUME NEW name \in SplitNames
        PROVE  SplitUpTo(records, n, name, targets)
                 = IF record.split = name THEN ScanSplit(SplitUpTo(records, n - 1, name, targets), record)
                   ELSE SplitUpTo(records, n - 1, name, targets)
    BY SplitReadOn
  <2>. QED BY <1>1, <2>1
<1>7. /\ new = [total |-> n, withTarget |-> new.withTarget, allZero |-> new.allZero,
                assignments |-> new.assignments, splits |-> splits(n)]
      /\ old.total = n - 1 /\ old.splits = splits(n - 1)
  BY DEF UpTo
<1>. HIDE DEF new, old, splits
<1>8. new = Scan(old, record)
  BY <1>3, <1>4, <1>5, <1>6, <1>7 DEF Scan
<1>. QED BY <1>8 DEF new, old

\* Before the first record.
LEMMA NothingRead ==
    ASSUME NEW records, NEW targets \in Nat
    PROVE  UpTo(records, 0, targets) = EmptyScan(targets)
<1>1. 1..0 = {}
  OBVIOUS
<1>2. Cardinality({}) = 0
  BY FS_EmptySet
<1>3. ASSUME NEW name
      PROVE  SplitUpTo(records, 0, name, targets)
               = [count |-> 0, allZero |-> 0, earliest |-> None, latest |-> None,
                  histogram |-> <<>>, positives |-> [place \in 1..targets |-> 0]]
  <2>1. Here(records, 0, name) = {}
    BY <1>1 DEF Here
  <2>2. [m \in {} |-> Cardinality({k \in {} : Ones(records[k].target) = m})] = <<>>
    OBVIOUS
  <2>3. \A place : {k \in {} : records[k].target[place] = 1} = {}
    OBVIOUS
  <2>4. {k \in {} : Ones(records[k].target) = 0} = {}
        /\ {Ones(records[k].target) : k \in {}} = {}
    OBVIOUS
  <2>. QED BY <1>2, <2>1, <2>2, <2>3, <2>4 DEF SplitUpTo
<1>4. /\ {k \in 1..0 : Ones(records[k].target) > 0} = {}
      /\ {k \in 1..0 : Ones(records[k].target) = 0} = {}
      /\ {p \in (1..0) \X (1..targets) : records[p[1]].target[p[2]] = 1} = {}
  BY <1>1
<1>. QED BY <1>2, <1>3, <1>4 DEF UpTo, EmptyScan

\* The validator has read the statistics of all records.
LEMMA ScanIsUpTo ==
    ASSUME NEW a, a.targets \in Nat, Len(a.records) \in Nat,
           \A k \in 1..Len(a.records) : Readable(a.records[k], a.targets)
    PROVE  ScanRecords(a) = UpTo(a.records, Len(a.records), a.targets)
<1>. DEFINE N == Len(a.records)
            Is(f) == f = [n \in 0..N |-> IF n = 0 THEN EmptyScan(a.targets)
                                         ELSE Scan(f[n - 1], a.records[n])]
            g == [n \in 0..N |-> UpTo(a.records, n, a.targets)]
            h == CHOOSE f : Is(f)
<1>1. ScanRecords(a) = h[N]
  BY DEF ScanRecords
<1>2. \A n \in 0..N : g[n] = IF n = 0 THEN EmptyScan(a.targets) ELSE Scan(g[n - 1], a.records[n])
  <2>. SUFFICES ASSUME NEW n \in 0..N
                PROVE  g[n] = IF n = 0 THEN EmptyScan(a.targets) ELSE Scan(g[n - 1], a.records[n])
    OBVIOUS
  <2>1. CASE n = 0
    BY <2>1, NothingRead
  <2>2. CASE n # 0
    <3>1. n \in Nat /\ n - 1 \in 0..N /\ 1..n \subseteq 1..N
      BY <2>2
    <3>2. UpTo(a.records, n, a.targets) = Scan(UpTo(a.records, n - 1, a.targets), a.records[n])
      BY <2>2, <3>1, ReadOn
    <3>3. g[n] = UpTo(a.records, n, a.targets) /\ g[n - 1] = UpTo(a.records, n - 1, a.targets)
      BY <3>1
    <3>. HIDE DEF g
    <3>. QED BY <2>2, <3>2, <3>3
  <2>. QED BY <2>1, <2>2
<1>3. Is(g)
  <2>1. g = [n \in 0..N |-> g[n]]
    OBVIOUS
  <2>. HIDE DEF g
  <2>. QED BY <1>2, <2>1
<1>4. Is(h)
  <2>. HIDE DEF Is, g
  <2>. QED BY <1>3
<1>5. \A n \in 0..N : h[n] = IF n = 0 THEN EmptyScan(a.targets) ELSE Scan(h[n - 1], a.records[n])
  <2>. HIDE DEF h, g
  <2>. QED BY <1>4
<1>. HIDE DEF h, g, Is
<1>6. \A n \in Nat : n \in 0..N => h[n] = g[n]
  <2>. DEFINE G == {n \in Nat : n \in 0..N => h[n] = g[n]}
  <2>1. SUFFICES ASSUME Nat \ G # {} PROVE FALSE
    OBVIOUS
  <2>2. PICK m \in Nat \ G : \A k \in Nat : k < m => k \in G
    <3>. HIDE DEF G
    <3>. QED BY <2>1, FirstMissing
  <2>3. m \in 0..N /\ h[m] # g[m]
    OBVIOUS
  <2>4. m # 0 /\ m - 1 \in Nat /\ m - 1 \in 0..N
    BY <1>2, <1>5, <2>3
  <2>5. m - 1 \in G
    BY <2>2, <2>4
  <2>. QED BY <1>2, <1>5, <2>3, <2>4, <2>5
<1>7. g[N] = UpTo(a.records, N, a.targets)
  BY DEF g
<1>. QED BY <1>1, <1>6, <1>7

\* The records that were checked against the issues, in their order.
LEMMA AcceptedAreSorted ==
    ASSUME NEW d \in Datasets, NEW canonical, NEW c, NEW a, Listed(a.records),
           ConsistentRecords(a), RecordsDeriveFromSource(a, d, canonical, c)
    PROVE  a.records = TransformIssues(d, canonical, c)
<1>. DEFINE records == a.records
            S == {RecordOf(d, id, canonical, c) : id \in DOMAIN d}
<1>1. PICK T : records \in Seq(T)
  BY DEF Listed
<1>2. /\ Len(records) = Len(d)
      /\ \A k \in DOMAIN records : /\ records[k].id \in DOMAIN d
                                   /\ records[k] = RecordOf(d, records[k].id, canonical, c)
      /\ \A j, k \in DOMAIN records : j # k => records[j].id # records[k].id
      /\ \A k \in DOMAIN records : k > 1 => ~OrderedBefore(records[k], records[k - 1])
  BY DEF RecordsDeriveFromSource, ConsistentRecords
<1>3. \A k \in DOMAIN records : records[k] \in S
  BY <1>2
<1>4. \A x \in S : \E k \in DOMAIN records : records[k] = x
  <2>1. {records[k].id : k \in DOMAIN records} = DOMAIN d
    <3>. HIDE DEF records
    <3>. QED BY <1>1, <1>2, EveryIssueHasARecord
  <2>. SUFFICES ASSUME NEW id \in DOMAIN d
                PROVE  \E k \in DOMAIN records : records[k] = RecordOf(d, id, canonical, c)
    OBVIOUS
  <2>2. PICK k \in DOMAIN records : records[k].id = id
    BY <2>1
  <2>3. records[k] = RecordOf(d, id, canonical, c)
    BY <1>2, <2>2
  <2>. QED BY <2>3
<1>5. IsFiniteSet(S) /\ Orders(RecordOrder(S), S)
  BY RecordsAreOrdered
<1>6. ASSUME NEW k \in DOMAIN records, k > 1
      PROVE  <<records[k - 1], records[k]>> \in RecordOrder(S)
  <2>1. k - 1 \in DOMAIN records /\ k - 1 # k
    BY <1>1, <1>6
  <2>2. \A j \in DOMAIN records : /\ records[j].created = d[records[j].id].created
                                  /\ records[j].id \in DOMAIN d
    <3>. SUFFICES ASSUME NEW j \in DOMAIN records
                  PROVE  /\ records[j].created = d[records[j].id].created
                         /\ records[j].id \in DOMAIN d
      OBVIOUS
    <3>1. RecordOf(d, records[j].id, canonical, c).created = d[records[j].id].created
      BY DEF RecordOf
    <3>. QED BY <1>2, <3>1
  <2>3. \A j \in DOMAIN records : records[j].created \in Int /\ records[j].id \in Int
    BY <2>2, IssuesAreListed
  <2>4. ~OrderedBefore(records[k], records[k - 1]) /\ records[k].id # records[k - 1].id
    BY <1>2, <1>6, <2>1
  <2>5. OrderedBefore(records[k - 1], records[k])
    BY <2>1, <2>3, <2>4 DEF OrderedBefore
  <2>. QED BY <1>3, <2>1, <2>5 DEF RecordOrder
<1>. HIDE DEF records, S
<1>7. records = SortedBy(S, RecordOrder(S))
  BY <1>3, <1>4, <1>5, <1>6, SortedIsUnique DEF records
<1>. QED BY <1>7 DEF records, S, TransformIssues

\* A record of an issue can be read.
LEMMA RecordIsReadable ==
    ASSUME NEW d \in Datasets, NEW canonical, NEW c \in SplitConfigs, NEW id \in DOMAIN d,
           Listed(canonical)
    PROVE  Readable(RecordOf(d, id, canonical, c), Len(canonical))
<1>. DEFINE r == RecordOf(d, id, canonical, c)
<1>1. d[id].created \in Times /\ d[id].created \in Int
  <2>1. d \in Seq(Issue)
    BY IssuesAreListed
  <2>2. d[id] \in Issue
    BY <2>1
  <2>. QED BY <2>2, AuditAssumption DEF Issue
<1>2. AssignSplit(d[id].created, c) \in SplitNames
  <2>1. AssignSplit(d[id].created, c) \in {"train", "validation", "test"}
    BY <1>1, SplitByTime
  <2>. QED BY <2>1, SplitPlaces
<1>3. TargetVector(d[id].labels, canonical) \in [1..Len(canonical) -> {0, 1}]
  BY ListPlaces DEF TargetVector
<1>4. /\ r.created = d[id].created /\ r.split = AssignSplit(d[id].created, c)
      /\ r.target = TargetVector(d[id].labels, canonical)
  BY DEF RecordOf
<1>. HIDE DEF r
<1>. QED BY <1>1, <1>2, <1>3, <1>4 DEF Readable, r

\* The statistics of all records are the report's.
LEMMA UpToTheEnd ==
    ASSUME NEW records, Listed(records), NEW canonical, Listed(canonical)
    PROVE  LET stats == UpTo(records, Len(records), Len(canonical))
           IN /\ stats.splits = [name \in SplitNames |->
                                    SplitStatistics(records, name, canonical)]
              /\ [total |-> stats.total, withTarget |-> stats.withTarget,
                  withoutTarget |-> stats.total - stats.withTarget,
                  assignments |-> stats.assignments] = GlobalStatistics(records, canonical)
<1>. DEFINE stats == UpTo(records, Len(records), Len(canonical))
<1>1. DOMAIN records = 1..Len(records) /\ DOMAIN canonical = 1..Len(canonical)
  BY ListPlaces
<1>2. ASSUME NEW name
      PROVE  SplitUpTo(records, Len(records), name, Len(canonical))
               = SplitStatistics(records, name, canonical)
  <2>. DEFINE here == InSplit(records, name)
  <2>1. Here(records, Len(records), name) = here
    BY <1>1 DEF Here, InSplit
  <2>2. \A place : Positives(records, name, place)
                     = Cardinality({k \in here : records[k].target[place] = 1})
    BY DEF Positives
  <2>. HIDE DEF here
  <2>. QED BY <1>1, <2>1, <2>2 DEF SplitUpTo, SplitStatistics, here
<1>3. stats.splits = [name \in SplitNames |-> SplitStatistics(records, name, canonical)]
  BY <1>2 DEF UpTo
<1>4. [total |-> stats.total, withTarget |-> stats.withTarget,
       withoutTarget |-> stats.total - stats.withTarget,
       assignments |-> stats.assignments] = GlobalStatistics(records, canonical)
  BY <1>1 DEF UpTo, GlobalStatistics
<1>. QED BY <1>3, <1>4

Unwarned(a) == [a EXCEPT !.report.warnings = <<>>]

\* A directory that was accepted for its inputs is what is built from them, whatever the
\* warnings of the report.
LEMMA AcceptedIsDerived ==
    ASSUME NEW d \in Datasets, NEW pol, NEW c \in SplitConfigs, NEW a, Filed(a),
           Listed(pol.coverage.included), AgainstInputs(a, d, pol, c)
    PROVE  /\ Unwarned(a) = Unwarned(ArtifactOf(d, pol, c))
           /\ a.records = TransformIssues(d, pol.coverage.included, c)
           /\ a.report.global = GlobalStatistics(a.records, pol.coverage.included)
<1>. DEFINE canonical == pol.coverage.included
            records == a.records
            stats == ScanRecords(a)
            splits == [name \in SplitNames |-> SplitStatistics(records, name, canonical)]
            global == GlobalStatistics(records, canonical)
            report == SplitReport(records, canonical, c)
            expected == ArtifactOf(d, pol, c)
<1>1. /\ Intact(a) /\ a.validation = c.validation /\ a.test = c.test
      /\ a.labels = canonical /\ RecordsDeriveFromSource(a, d, canonical, c)
  BY DEF AgainstInputs, PolicyLabelOrder
<1>2. /\ a.targets = Len(canonical) /\ a.targets \in Nat
      /\ a.report.validation = a.validation /\ a.report.test = a.test
      /\ ConsistentRecords(a) /\ ReportMatchesScan(stats, a)
  BY <1>1, ListPlaces DEF Intact
<1>3. a.written = Len(records)
  BY <1>2 DEF ConsistentRecords
<1>4. Listed(records) /\ Len(records) \in Nat /\ DOMAIN records = 1..Len(records)
  BY ListPlaces DEF Filed
<1>5. records = TransformIssues(d, canonical, c)
  BY <1>1, <1>2, AcceptedAreSorted DEF Filed
<1>6. stats = UpTo(records, Len(records), Len(canonical))
  <2>1. \A k \in 1..Len(records) : Readable(records[k], a.targets)
    <3>. SUFFICES ASSUME NEW k \in 1..Len(records) PROVE Readable(records[k], a.targets)
      OBVIOUS
    <3>1. /\ records[k].id \in DOMAIN d
          /\ records[k] = RecordOf(d, records[k].id, canonical, c)
      BY <1>1, <1>4 DEF RecordsDeriveFromSource
    <3>2. Readable(RecordOf(d, records[k].id, canonical, c), Len(canonical))
      BY <3>1, RecordIsReadable
    <3>. QED BY <1>2, <3>1, <3>2
  <2>. QED BY <1>2, <1>4, <2>1, ScanIsUpTo
<1>7. a.report.splits = splits /\ a.report.global = global
  <2>1. /\ stats.splits = splits
        /\ [total |-> stats.total, withTarget |-> stats.withTarget,
            withoutTarget |-> stats.total - stats.withTarget,
            assignments |-> stats.assignments] = global
    BY <1>4, <1>6, UpToTheEnd
  <2>2. /\ a.report.splits = stats.splits
        /\ a.report.global = [total |-> stats.total, withTarget |-> stats.withTarget,
                              withoutTarget |-> stats.total - stats.withTarget,
                              assignments |-> stats.assignments]
    BY <1>2 DEF ReportMatchesScan
  <2>. QED BY <2>1, <2>2
<1>8. /\ report = [f \in ReportFields |-> report[f]]
      /\ report.validation = c.validation /\ report.test = c.test
      /\ report.global = global /\ report.splits = splits
  BY ReportIsFiled DEF SplitReport
<1>9. [a.report EXCEPT !.warnings = <<>>] = [report EXCEPT !.warnings = <<>>]
  <2>1. a.report = [f \in ReportFields |-> a.report[f]]
    BY DEF Filed
  <2>. HIDE DEF report, splits, global
  <2>2. \A f \in ReportFields : f # "warnings" => a.report[f] = report[f]
    BY <1>1, <1>2, <1>7, <1>8 DEF ReportFields
  <2>. QED BY <1>8, <2>1, <2>2
<1>10. expected = [validation |-> c.validation, test |-> c.test, written |-> Len(records),
                   targets |-> Len(canonical), labels |-> canonical, records |-> records,
                   report |-> report]
  BY <1>5 DEF ArtifactOf
<1>11. a = [f \in Fields |-> a[f]]
  BY DEF Filed
<1>. HIDE DEF canonical, records, stats, splits, global, report, expected
<1>12. /\ expected = [f \in Fields |-> expected[f]] /\ expected.report = report
       /\ \A f \in Fields : f # "report" => a[f] = expected[f]
  BY <1>1, <1>2, <1>3, <1>10 DEF Fields, records
<1>13. [a EXCEPT !.report = [a.report EXCEPT !.warnings = <<>>]]
         = [expected EXCEPT !.report = [report EXCEPT !.warnings = <<>>]]
  BY <1>9, <1>11, <1>12
<1>14. Unwarned(a) = Unwarned(expected)
  BY <1>12, <1>13 DEF Unwarned
<1>. QED BY <1>5, <1>7, <1>14 DEF expected, records, canonical, global

-----------------------------------------------------------------------------
(* The index and its neighbours.                                           *)

\* Records that derive from the issues.
Stored(d, records, canonical, c) ==
    /\ Listed(records)
    /\ \A k \in DOMAIN records :
          /\ records[k].id \in DOMAIN d
          /\ records[k] = RecordOf(d, records[k].id, canonical, c)

\* The records of a split are sorted, each is there once.
LEMMA SplitIsSorted ==
    ASSUME NEW d \in Datasets, NEW records, NEW canonical, NEW c,
           Stored(d, records, canonical, c), NEW name
    PROVE  LET s == SplitOf(records, name)
           IN /\ Listed(s) /\ Len(s) \in Nat /\ DOMAIN s = 1..Len(s)
              /\ \A k \in DOMAIN s : /\ s[k].id \in DOMAIN d /\ s[k].id \in Int
                                     /\ s[k].split = name
                                     /\ s[k].created = d[s[k].id].created
                                     /\ s[k].split = AssignSplit(d[s[k].id].created, c)
              /\ \A j, k \in DOMAIN s : j # k => s[j].id # s[k].id
<1>. DEFINE here == {r \in ToSet(records) : r.split = name}
            s == SplitOf(records, name)
<1>1. IsFiniteSet(here)
  <2>1. IsFiniteSet(ToSet(records)) /\ here \in SUBSET ToSet(records)
    BY ListPlaces DEF Stored
  <2>. QED BY <2>1, FS_Subset
<1>2. ASSUME NEW r \in here
      PROVE  /\ r.id \in DOMAIN d /\ r.id \in Int /\ r.created \in Int
             /\ r = RecordOf(d, r.id, canonical, c)
             /\ r.created = d[r.id].created /\ r.split = AssignSplit(d[r.id].created, c)
  <2>1. PICK k \in DOMAIN records : r = records[k]
    BY DEF ToSet
  <2>2. r.id \in DOMAIN d /\ r = RecordOf(d, r.id, canonical, c)
    BY <2>1 DEF Stored
  <2>3. /\ RecordOf(d, r.id, canonical, c).created = d[r.id].created
        /\ RecordOf(d, r.id, canonical, c).split = AssignSplit(d[r.id].created, c)
    BY DEF RecordOf
  <2>4. r.id \in Int /\ d[r.id].created \in Int
    BY <2>2, IssuesAreListed
  <2>. HIDE DEF here
  <2>. QED BY <2>2, <2>3, <2>4
<1>3. \A r \in here : r.split = name
  OBVIOUS
<1>4. \A r, q \in here : r # q => r.id # q.id
  BY <1>2
<1>5. s = SortedBy(here, RecordOrder(here))
  BY DEF SplitOf
<1>. HIDE DEF here, s
<1>6. \A r, q \in here : <<r, q>> \in RecordOrder(here) <=> OrderedBefore(r, q)
  BY DEF RecordOrder
<1>7. Orders(RecordOrder(here), here)
  BY <1>2, <1>4, <1>6 DEF Orders, OrderedBefore
<1>8. /\ s \in Seq(here) /\ Len(s) \in Nat /\ DOMAIN s = 1..Len(s)
      /\ \A j, k \in DOMAIN s : <<s[j], s[k]>> \in RecordOrder(here) <=> j < k
  <2>. DEFINE z == SortedBy(here, RecordOrder(here))
              n == Cardinality(here)
  <2>1. /\ z \in Seq(here) /\ Len(z) = n /\ n \in Nat /\ DOMAIN z = 1..n
        /\ \A j, k \in 1..n : <<z[j], z[k]>> \in RecordOrder(here) <=> j < k
    BY <1>1, <1>7, Sorting
  <2>2. s = z
    BY <1>5
  <2>. HIDE DEF z, n
  <2>. QED BY <2>1, <2>2
<1>9. ASSUME NEW j \in DOMAIN s, NEW k \in DOMAIN s, j # k PROVE s[j].id # s[k].id
  <2>1. s[j] \in here /\ s[k] \in here /\ j \in Int /\ k \in Int
    <3>1. s \in Seq(here) /\ DOMAIN s = 1..Len(s) /\ Len(s) \in Nat
      BY <1>8
    <3>. QED BY <3>1
  <2>2. <<s[j], s[k]>> \in RecordOrder(here) \/ <<s[k], s[j]>> \in RecordOrder(here)
    <3>1. j < k \/ k < j
      BY <1>9, <2>1
    <3>2. /\ <<s[j], s[k]>> \in RecordOrder(here) <=> j < k
          /\ <<s[k], s[j]>> \in RecordOrder(here) <=> k < j
      BY <1>8
    <3>. QED BY <3>1, <3>2
  <2>3. s[j] # s[k]
    BY <1>7, <2>1, <2>2 DEF Orders
  <2>. QED BY <1>4, <2>1, <2>3
<1>10. \A k \in DOMAIN s : s[k] \in here
  BY <1>8
<1>11. Listed(s)
  BY <1>8 DEF Listed
<1>. QED BY <1>2, <1>3, <1>8, <1>9, <1>10, <1>11 DEF s

\* The corpus of an index of the records: issues of the training split, each once.
CorpusFacts(d, records, c) ==
    LET corpus == BuildIndex(records).corpus
        T == ToSet(corpus)
    IN /\ Listed(corpus) /\ Len(corpus) \in Nat /\ DOMAIN corpus = 1..Len(corpus)
       /\ IsFiniteSet(T) /\ Cardinality(T) = Len(corpus)
       /\ \A x \in T : /\ x.id \in DOMAIN d /\ x.id \in Int
                       /\ AssignSplit(d[x.id].created, c) = "train"
       /\ \A x, y \in T : x # y => x.id # y.id
       /\ \A j, k \in DOMAIN corpus : corpus[j].id = corpus[k].id => j = k
       /\ BuildIndex(records).fitted = [k \in DOMAIN corpus |-> corpus[k].id]

\* The corpus of an index is what is in the training split.
LEMMA CorpusOfIndex ==
    ASSUME NEW d \in Datasets, NEW records, NEW canonical, NEW c,
           Stored(d, records, canonical, c)
    PROVE  CorpusFacts(d, records, c)
<1>. DEFINE train == SplitOf(records, "train")
            corpus == [k \in DOMAIN train |-> CorpusRecord(train[k])]
            T == ToSet(corpus)
<1>1. /\ Listed(train) /\ Len(train) \in Nat /\ DOMAIN train = 1..Len(train)
      /\ \A k \in DOMAIN train : /\ train[k].id \in DOMAIN d /\ train[k].id \in Int
                                 /\ AssignSplit(d[train[k].id].created, c) = "train"
      /\ \A j, k \in DOMAIN train : j # k => train[j].id # train[k].id
  BY SplitIsSorted
<1>2. /\ BuildIndex(records).corpus = corpus
      /\ BuildIndex(records).fitted = [k \in DOMAIN train |-> train[k].id]
  BY DEF BuildIndex
<1>. HIDE DEF train
<1>3. \A k \in DOMAIN train : corpus[k].id = train[k].id
  BY DEF CorpusRecord
<1>4. DOMAIN corpus = DOMAIN train
  OBVIOUS
<1>5. BuildIndex(records).fitted = [k \in DOMAIN corpus |-> corpus[k].id]
  <2>1. [k \in DOMAIN train |-> train[k].id] = [k \in DOMAIN corpus |-> corpus[k].id]
    <3>. HIDE DEF corpus
    <3>. QED BY <1>3, <1>4
  <2>. QED BY <1>2, <2>1
<1>6. corpus \in Seq({CorpusRecord(train[k]) : k \in DOMAIN train})
  BY <1>1
<1>. HIDE DEF corpus
<1>7. Listed(corpus) /\ Len(corpus) \in Nat /\ DOMAIN corpus = 1..Len(corpus)
  BY <1>6, ListPlaces DEF Listed
<1>8. IsFiniteSet(DOMAIN corpus) /\ IsFiniteSet(T) /\ Cardinality(DOMAIN corpus) = Len(corpus)
  <2>1. IsFiniteSet(DOMAIN corpus) /\ IsFiniteSet(T)
    BY <1>7, ListPlaces
  <2>2. Cardinality(1..Len(corpus)) = Len(corpus)
    <3>1. Len(corpus) \in Int /\ 1 \in Int /\ Len(corpus) >= 0
      BY <1>7
    <3>2. Cardinality(1..Len(corpus)) = IF 1 > Len(corpus) THEN 0 ELSE Len(corpus) - 1 + 1
      BY <3>1, FS_Interval
    <3>. QED BY <3>1, <3>2
  <2>. QED BY <1>7, <2>1, <2>2
<1>9. corpus \in Bijection(DOMAIN corpus, T)
  <2>1. corpus \in [DOMAIN corpus -> T]
    BY <1>6, <1>7 DEF ToSet
  <2>2. \A x \in T : \E k \in DOMAIN corpus : corpus[k] = x
    BY DEF ToSet
  <2>3. \A j, k \in DOMAIN corpus : corpus[j] = corpus[k] => j = k
    BY <1>1, <1>3, <1>4
  <2>. HIDE DEF T
  <2>. QED BY <2>1, <2>2, <2>3 DEF Bijection, Injection, Surjection, IsInjective
<1>10. Cardinality(T) = Len(corpus)
  <2>. HIDE DEF T
  <2>. QED BY <1>8, <1>9, FS_Bijection DEF ExistsBijection
<1>11. \A x \in T : \E k \in DOMAIN train : x = corpus[k]
  BY <1>4 DEF ToSet
<1>. HIDE DEF T
<1>12. \A x \in T : /\ x.id \in DOMAIN d /\ x.id \in Int
                    /\ AssignSplit(d[x.id].created, c) = "train"
  BY <1>1, <1>3, <1>11
<1>13. \A x, y \in T : x # y => x.id # y.id
  BY <1>1, <1>3, <1>11
<1>14. \A j, k \in DOMAIN corpus : corpus[j].id = corpus[k].id => j = k
  BY <1>1, <1>3, <1>4
<1>. QED BY <1>2, <1>5, <1>7, <1>8, <1>10, <1>12, <1>13, <1>14 DEF T, CorpusFacts

\* Nearness orders a set of issues, and so does the order of the server.
LEMMA NearnessOrders ==
    ASSUME NEW T, NEW near, \A x \in T : x.id \in Int /\ near[x.id] \in Int,
           \A x, y \in T : x # y => x.id # y.id
    PROVE  /\ Orders(Nearness(near, T), T)
           /\ \A x, y \in T : <<x, y>> \in Nearness(near, T) <=> Nearer(near, x, y)
<1>1. \A x, y \in T : <<x, y>> \in Nearness(near, T) <=> Nearer(near, x, y)
  BY DEF Nearness
<1>2. \A x \in T : ~Nearer(near, x, x)
  BY DEF Nearer
<1>3. \A x, y \in T : x # y => Nearer(near, x, y) \/ Nearer(near, y, x)
  BY DEF Nearer
<1>4. \A x, y, z \in T : Nearer(near, x, y) /\ Nearer(near, y, z) => Nearer(near, x, z)
  BY DEF Nearer
<1>. QED BY <1>1, <1>2, <1>3, <1>4 DEF Orders

\* What is found for an issue r in an index: as many as asked for or as there are, the
\* first of the corpus when that is sorted by nearness.
NearestFound(records, r, count, t) ==
    LET corpus == BuildIndex(records).corpus
        T == ToSet(corpus)
        near == Nearness(t[r.id], T)
        row == RowOf(corpus, r, count, t)
        ranked == SortedBy(T, near)
        size == Least(count, Len(corpus))
    IN /\ row.query = r.id
       /\ row.neighbors \in Seq({row.neighbors[n] : n \in DOMAIN row.neighbors})
       /\ Len(row.neighbors) = size
       /\ size \in 0..Cardinality(T)
       /\ IsFiniteSet(T) /\ Orders(near, T)
       /\ \A x, y \in T : <<x, y>> \in near <=> Nearer(t[r.id], x, y)
       /\ \A n \in 1..size : row.neighbors[n].id = ranked[n].id /\ ranked[n] \in T

\* The search finds the nearest.
LEMMA RowIsNearest ==
    ASSUME NEW d \in Datasets, NEW records, NEW canonical, NEW c \in SplitConfigs,
           Stored(d, records, canonical, c), NEW t \in Similarities, NEW count \in Nat,
           NEW r, r.id \in DOMAIN d
    PROVE  NearestFound(records, r, count, t)
<1>. DEFINE corpus == BuildIndex(records).corpus
            T == ToSet(corpus)
            near == Nearness(t[r.id], T)
            row == RowOf(corpus, r, count, t)
            ranked == SortedBy(T, near)
            size == Least(count, Len(corpus))
<1>1. /\ Len(corpus) \in Nat /\ DOMAIN corpus = 1..Len(corpus)
      /\ IsFiniteSet(T) /\ Cardinality(T) = Len(corpus)
      /\ \A x \in T : x.id \in DOMAIN d /\ x.id \in Int
      /\ \A x, y \in T : x # y => x.id # y.id
  <2>1. CorpusFacts(d, records, c)
    BY CorpusOfIndex
  <2>. QED BY <2>1 DEF CorpusFacts
<1>2. \A x \in T : t[r.id][x.id] \in Int
  BY <1>1, CurationAssumption
<1>3. Orders(near, T) /\ \A x, y \in T : <<x, y>> \in near <=> Nearer(t[r.id], x, y)
  <2>. HIDE DEF T
  <2>. QED BY <1>1, <1>2, NearnessOrders
<1>4. size \in 0..Cardinality(T) /\ size \in Nat
  BY <1>1 DEF Least
<1>5. \A n \in 1..Cardinality(T) : ranked[n] \in T
  <2>. HIDE DEF T, near
  <2>. QED BY <1>1, <1>3, Sorting
<1>6. /\ row.query = r.id
      /\ row.neighbors = [k \in 1..size |->
            Annotated(k, r.selected, ranked[k], t[r.id][ranked[k].id])]
  BY DEF RowOf
<1>7. \A k : Annotated(k, r.selected, ranked[k], t[r.id][ranked[k].id]).id = ranked[k].id
  BY DEF Annotated
<1>. HIDE DEF row, ranked, size, near, T
<1>8. /\ row.neighbors \in Seq({row.neighbors[n] : n \in DOMAIN row.neighbors})
      /\ Len(row.neighbors) = size
  <2>. DEFINE f == row.neighbors
  <2>1. DOMAIN f = 1..size
    BY <1>6
  <2>2. f = [k \in 1..size |-> f[k]]
    BY <1>6
  <2>. HIDE DEF f
  <2>3. f \in Seq({f[n] : n \in DOMAIN f}) /\ Len(f) = size
    BY <1>4, <2>1, <2>2
  <2>. QED BY <2>3 DEF f
<1>9. \A n \in 1..size : row.neighbors[n].id = ranked[n].id
  BY <1>6, <1>7
<1>10. \A n \in 1..size : ranked[n] \in T
  BY <1>1, <1>4, <1>5
<1>. QED BY <1>1, <1>3, <1>4, <1>6, <1>8, <1>9, <1>10
         DEF row, ranked, size, near, T, NearestFound

\* An index and its neighbours are lists.
Rows(rows) ==
    /\ Listed(rows)
    /\ \A k \in DOMAIN rows : "neighbors" \in DOMAIN rows[k] /\ Listed(rows[k].neighbors)

Shaped(a) ==
    /\ {"corpus", "neighbors"} \subseteq DOMAIN a /\ Queries = DOMAIN a.neighbors
    /\ Listed(a.corpus)
    /\ \A s \in Queries : Rows(a.neighbors[s])

\* A list turned round is a list of the same elements, and one with an element changed is one.
LEMMA StillListed ==
    ASSUME NEW s, Listed(s)
    PROVE  /\ Listed(Reverse(s)) /\ \A k \in DOMAIN Reverse(s) :
                 \E j \in DOMAIN s : Reverse(s)[k] = s[j]
           /\ \A k \in DOMAIN s : \A x : Listed([s EXCEPT ![k] = x])
<1>1. PICK S : s \in Seq(S)
  BY DEF Listed
<1>2. Len(s) \in Nat /\ DOMAIN s = 1..Len(s) /\ \A k \in DOMAIN s : s[k] \in S
  BY <1>1
<1>3. \A k \in 1..Len(s) : (Len(s) - k) + 1 \in 1..Len(s)
  BY <1>2
<1>4. DOMAIN Reverse(s) = 1..Len(s)
      /\ \A k \in 1..Len(s) : Reverse(s)[k] = s[(Len(s) - k) + 1]
  BY DEF Reverse
<1>5. Reverse(s) \in Seq(S)
  BY <1>2, <1>3 DEF Reverse
<1>6. ASSUME NEW k \in DOMAIN s, NEW x PROVE Listed([s EXCEPT ![k] = x])
  <2>1. [s EXCEPT ![k] = x] \in Seq(S \cup {x})
    BY <1>1
  <2>. QED BY <2>1 DEF Listed
<1>7. Listed(Reverse(s))
  BY <1>5 DEF Listed
<1>. QED BY <1>2, <1>3, <1>4, <1>6, <1>7

\* The validator's comparison: the neighbours of an accepted index are those that are
\* found again in the training split, whatever its own corpus is.
LEMMA AcceptedIsFoundAgain ==
    ASSUME NEW d \in Datasets, NEW records, NEW canonical, NEW c \in SplitConfigs,
           Stored(d, records, canonical, c), NEW t \in Similarities, NEW count \in Nat,
           NEW a, Shaped(a), RetrievalAgainstModelDataset(a, records, count, t),
           NEW s \in Queries, NEW k \in DOMAIN a.neighbors[s]
    PROVE  LET corpus == BuildIndex(records).corpus
               row == a.neighbors[s][k]
               ranked == SortedBy(ToSet(corpus), Nearness(t[row.query], ToSet(corpus)))
               size == Least(count, Len(corpus))
           IN /\ row.query \in DOMAIN d /\ AssignSplit(d[row.query].created, c) = s
              /\ DOMAIN row.neighbors = 1..size /\ size \in Nat
              /\ \A n \in 1..size : row.neighbors[n].id = ranked[n].id
<1>. DEFINE corpus == BuildIndex(records).corpus
            queries == SplitOf(records, s)
            again == SearchSplit(corpus, records, s, count, t)
            row == a.neighbors[s][k]
            size == Least(count, Len(corpus))
<1>1. /\ a.topK = count
      /\ NeighborsClose(a.neighbors[s], RetrievalOf(records, a.topK, t).neighbors[s])
  BY DEF RetrievalAgainstModelDataset
<1>2. RetrievalOf(records, count, t).neighbors[s] = again
  BY DEF RetrievalOf
<1>3. NeighborsClose(a.neighbors[s], again)
  BY <1>1, <1>2
<1>4. /\ Listed(queries) /\ Len(queries) \in Nat /\ DOMAIN queries = 1..Len(queries)
      /\ \A m \in DOMAIN queries : /\ queries[m].id \in DOMAIN d
                                   /\ AssignSplit(d[queries[m].id].created, c) = s
  BY SplitIsSorted
<1>5. again = [m \in DOMAIN queries |-> RowOf(corpus, queries[m], count, t)]
  BY DEF SearchSplit
<1>. HIDE DEF again, queries
<1>6. Len(again) = Len(queries) /\ DOMAIN again = DOMAIN queries
  <2>1. again \in Seq({again[m] : m \in DOMAIN queries})
    BY <1>4, <1>5
  <2>2. DOMAIN again = 1..Len(queries)
    BY <1>4, <1>5
  <2>. QED BY <1>4, <2>1, <2>2
<1>7. k \in DOMAIN queries
  <2>1. DOMAIN a.neighbors[s] = 1..Len(a.neighbors[s])
    BY ListPlaces DEF Shaped, Rows
  <2>2. Len(a.neighbors[s]) = Len(again)
    BY <1>3 DEF NeighborsClose
  <2>. QED BY <1>4, <1>6, <2>1, <2>2
<1>8. again[k] = RowOf(corpus, queries[k], count, t)
  BY <1>5, <1>7
<1>9. /\ row.query = again[k].query
      /\ Len(row.neighbors) = Len(again[k].neighbors)
      /\ \A n \in DOMAIN row.neighbors : row.neighbors[n].id = again[k].neighbors[n].id
  BY <1>3 DEF NeighborsClose
<1>10. queries[k].id \in DOMAIN d /\ AssignSplit(d[queries[k].id].created, c) = s
  BY <1>4, <1>7
<1>. DEFINE r == queries[k]
            found == RowOf(corpus, r, count, t)
            ranked == SortedBy(ToSet(corpus), Nearness(t[r.id], ToSet(corpus)))
<1>11. /\ found.query = r.id
       /\ Len(found.neighbors) = size
       /\ size \in 0..Cardinality(ToSet(corpus)) /\ IsFiniteSet(ToSet(corpus))
       /\ \A n \in 1..size : found.neighbors[n].id = ranked[n].id
  <2>1. r.id \in DOMAIN d
    BY <1>10
  <2>2. NearestFound(records, r, count, t)
    BY <2>1, RowIsNearest
  <2>. QED BY <2>2 DEF NearestFound
<1>12. size \in Nat
  BY <1>11
<1>. HIDE DEF found, size
<1>13. DOMAIN row.neighbors = 1..size
  <2>1. DOMAIN row.neighbors = 1..Len(row.neighbors)
    BY ListPlaces DEF Shaped, Rows
  <2>. QED BY <1>8, <1>9, <1>11, <2>1 DEF found
<1>14. \A n \in 1..size : row.neighbors[n].id = ranked[n].id
  BY <1>8, <1>9, <1>11, <1>13 DEF found
<1>15. row.query = r.id
  BY <1>8, <1>9, <1>11 DEF found
<1>. HIDE DEF ranked
<1>. QED BY <1>10, <1>12, <1>13, <1>14, <1>15 DEF size, ranked

\* The index a server loads has the training split for its corpus: the fingerprint, which
\* is that of the index built again, is over the matrix and the corpus on disk.
LEMMA LoadedCorpus ==
    ASSUME NEW d \in Datasets, NEW records, NEW canonical, NEW c,
           Stored(d, records, canonical, c), NEW t, NEW count,
           NEW a, Shaped(a), RetrievalAgainstModelDataset(a, records, count, t),
           IndexConsistent(a)
    PROVE  LET corpus == BuildIndex(records).corpus
           IN /\ DOMAIN a.corpus = DOMAIN corpus /\ Len(a.corpus) = Len(corpus)
              /\ \A n \in DOMAIN corpus : a.corpus[n].id = corpus[n].id
<1>. DEFINE corpus == BuildIndex(records).corpus
            ids == [n \in DOMAIN corpus |-> corpus[n].id]
            stored == [n \in DOMAIN a.corpus |-> a.corpus[n].id]
<1>1. a.fitted = BuildIndex(records).fitted
  BY DEF RetrievalAgainstModelDataset, RetrievalOf
<1>2. /\ BuildIndex(records).fitted = ids
      /\ Len(corpus) \in Nat /\ DOMAIN corpus = 1..Len(corpus)
  <2>1. CorpusFacts(d, records, c)
    BY CorpusOfIndex
  <2>. QED BY <2>1 DEF CorpusFacts
<1>3. DOMAIN a.corpus = 1..Len(a.corpus) /\ Len(a.corpus) \in Nat
  BY ListPlaces DEF Shaped, Rows
<1>4. /\ DOMAIN stored = DOMAIN a.corpus /\ DOMAIN ids = DOMAIN corpus
      /\ \A n \in DOMAIN a.corpus : stored[n] = a.corpus[n].id
      /\ \A n \in DOMAIN corpus : ids[n] = corpus[n].id
  OBVIOUS
<1>5. stored = a.fitted
  BY DEF IndexConsistent
<1>. HIDE DEF ids, stored, corpus
<1>6. stored = ids
  BY <1>1, <1>2, <1>5
<1>7. DOMAIN a.corpus = DOMAIN corpus /\ \A n \in DOMAIN corpus : a.corpus[n].id = corpus[n].id
  BY <1>4, <1>6
<1>8. Len(a.corpus) = Len(corpus)
  BY <1>2, <1>3, <1>7
<1>. QED BY <1>7, <1>8 DEF corpus

\* The issues of the training split.
Trained(records) == {r.id : r \in ToSet(SplitOf(records, "train"))}

\* They are those of the corpus of an index that is built, and as many.
LEMMA TrainedIsCorpus ==
    ASSUME NEW d \in Datasets, NEW records, NEW canonical, NEW c,
           Stored(d, records, canonical, c)
    PROVE  LET corpus == BuildIndex(records).corpus
           IN /\ Trained(records) = {x.id : x \in ToSet(corpus)}
              /\ Cardinality(Trained(records)) = Len(corpus)
<1>. DEFINE train == SplitOf(records, "train")
            corpus == BuildIndex(records).corpus
            T == ToSet(corpus)
            f == [x \in T |-> x.id]
<1>1. corpus = [k \in DOMAIN train |-> CorpusRecord(train[k])]
  BY DEF BuildIndex
<1>. HIDE DEF train, corpus
<1>2. DOMAIN corpus = DOMAIN train /\ \A k \in DOMAIN train : corpus[k].id = train[k].id
  BY <1>1 DEF CorpusRecord
<1>3. Trained(records) = {x.id : x \in T}
  BY <1>2 DEF Trained, ToSet, train
<1>4. /\ IsFiniteSet(T) /\ Cardinality(T) = Len(corpus)
      /\ \A x, y \in T : x # y => x.id # y.id
  <2>1. CorpusFacts(d, records, c)
    BY CorpusOfIndex
  <2>. QED BY <2>1 DEF CorpusFacts, corpus
<1>5. f \in Bijection(T, Trained(records))
  <2>1. f \in [T -> Trained(records)] /\ \A i \in Trained(records) : \E x \in T : f[x] = i
    BY <1>3
  <2>2. \A x, y \in T : f[x] = f[y] => x = y
    BY <1>4
  <2>. HIDE DEF T, f
  <2>3. f \in Injection(T, Trained(records))
    BY <2>1, <2>2 DEF Injection, IsInjective
  <2>4. f \in Surjection(T, Trained(records))
    BY <2>1 DEF Surjection
  <2>. QED BY <2>3, <2>4 DEF Bijection
<1>6. Cardinality(Trained(records)) = Cardinality(T)
  <2>. HIDE DEF T, f
  <2>. QED BY <1>4, <1>5, FS_Bijection DEF ExistsBijection
<1>. QED BY <1>3, <1>4, <1>6 DEF corpus

\* What is stored for a query: older issues, the nearest of those in the set.
NearestStored(d, trained, row, t, count) ==
    LET near == t[row.query]
        found == [n \in DOMAIN row.neighbors |-> row.neighbors[n].id]
    IN /\ ToSet(found) \subseteq trained
       /\ \A i \in ToSet(found) : d[i].created < d[row.query].created
       /\ \A n \in DOMAIN found, i \in trained :
             i \in ToSet(SubSeq(found, 1, n)) \/ near[i] < near[found[n]]
             \/ (near[i] = near[found[n]] /\ found[n] < i)
       /\ Len(found) = Least(count, Cardinality(trained))

\* What an accepted index has stored for a query is that, of the training split.
LEMMA AcceptedRows ==
    ASSUME NEW d \in Datasets, NEW records, NEW canonical, NEW c \in SplitConfigs,
           Stored(d, records, canonical, c), NEW t \in Similarities, NEW count \in Nat,
           NEW a, Shaped(a), RetrievalAgainstModelDataset(a, records, count, t),
           NEW s \in Queries, NEW k \in DOMAIN a.neighbors[s]
    PROVE  NearestStored(d, Trained(records), a.neighbors[s][k], t, count)
<1>. DEFINE corpus == BuildIndex(records).corpus
            T == ToSet(corpus)
            row == a.neighbors[s][k]
            near == t[row.query]
            found == [n \in DOMAIN row.neighbors |-> row.neighbors[n].id]
            ranked == SortedBy(T, Nearness(near, T))
            size == Least(count, Len(corpus))
<1>1. /\ row.query \in DOMAIN d /\ AssignSplit(d[row.query].created, c) = s
      /\ DOMAIN row.neighbors = 1..size /\ size \in Nat
      /\ \A n \in 1..size : row.neighbors[n].id = ranked[n].id
  BY SMTT(30), AcceptedIsFoundAgain
<1>2. /\ size \in 0..Cardinality(T) /\ IsFiniteSet(T) /\ Orders(Nearness(near, T), T)
      /\ \A x, y \in T : <<x, y>> \in Nearness(near, T) <=> Nearer(near, x, y)
      /\ \A n \in 1..size : ranked[n] \in T
  <2>. DEFINE r == [id |-> row.query]
  <2>1. r.id = row.query
    OBVIOUS
  <2>. HIDE DEF r, row
  <2>2. NearestFound(records, r, count, t)
    BY <1>1, <2>1, RowIsNearest
  <2>. QED BY <2>1, <2>2 DEF NearestFound
<1>3. \A x \in T : /\ x.id \in DOMAIN d /\ x.id \in Int
                   /\ AssignSplit(d[x.id].created, c) = "train"
  <2>1. CorpusFacts(d, records, c)
    BY CorpusOfIndex
  <2>. QED BY <2>1 DEF CorpusFacts
<1>a. Trained(records) = {x.id : x \in T} /\ Cardinality(Trained(records)) = Len(corpus)
  BY TrainedIsCorpus
<1>4. /\ \A x \in T : \E m \in 1..Cardinality(T) : ranked[m] = x
      /\ \A m \in 1..Cardinality(T) : ranked[m] \in T
      /\ \A m, n \in 1..Cardinality(T) :
            <<ranked[m], ranked[n]>> \in Nearness(near, T) <=> m < n
      /\ Cardinality(T) \in Nat
  <2>. HIDE DEF T, near
  <2>. QED BY <1>2, Sorting
<1>. HIDE DEF corpus, T, ranked, size
<1>5. DOMAIN found = 1..size /\ \A n \in 1..size : found[n] = ranked[n].id
  BY <1>1
<1>. HIDE DEF found
<1>6. found \in Seq({ranked[n].id : n \in 1..size}) /\ Len(found) = size
  <2>1. found = [n \in 1..size |-> ranked[n].id]
    BY <1>1, <1>5 DEF found
  <2>. QED BY <1>1, <2>1
<1>7. ASSUME NEW i \in ToSet(found) PROVE d[i].created < d[row.query].created
  <2>1. PICK n \in 1..size : i = ranked[n].id
    BY <1>5 DEF ToSet
  <2>2. i \in DOMAIN d /\ AssignSplit(d[i].created, c) = "train"
    BY <1>2, <1>3, <2>1
  <2>3. d[i].created \in Int /\ d[row.query].created \in Int
    BY <1>1, <2>2, IssuesAreListed
  <2>4. AssignSplit(d[row.query].created, c) # "train"
    BY <1>1 DEF Queries
  <2>5. c.validation \in Int /\ c.test \in Int
    BY SplitByTime
  <2>6. ~(d[row.query].created < c.validation)
    BY <2>3, <2>4, SplitByTime
  <2>7. d[i].created < c.validation
    <3>1. ~(d[i].created >= c.validation)
      BY <2>2, <2>3, <2>5, SplitByTime
    <3>. QED BY <2>3, <2>5, <3>1
  <2>. QED BY <2>3, <2>5, <2>6, <2>7
<1>8. ASSUME NEW n \in DOMAIN found, NEW i \in Trained(records)
      PROVE  i \in ToSet(SubSeq(found, 1, n)) \/ near[i] < near[found[n]]
             \/ (near[i] = near[found[n]] /\ found[n] < i)
  <2>2. PICK x \in T : x.id = i
    BY <1>a
  <2>3. PICK m \in 1..Cardinality(T) : ranked[m] = x
    BY <1>4, <2>2
  <2>4. n \in 1..size /\ n \in 1..Cardinality(T) /\ found[n] = ranked[n].id
    BY <1>2, <1>4, <1>5
  <2>5. CASE m =< n
    <3>1. m \in 1..size /\ found[m] = i
      <4>1. m \in 1..size
        BY <1>1, <1>4, <2>4, <2>5
      <4>. QED BY <1>5, <2>2, <2>3, <4>1
    <3>2. m \in 1..n /\ n \in 1..Len(found) /\ n \in Nat
      BY <1>6, <2>4, <2>5
    <3>3. m \in DOMAIN SubSeq(found, 1, n) /\ SubSeq(found, 1, n)[m] = found[m]
      BY <1>6, <3>2, SubSeqProperties
    <3>. DEFINE q == SubSeq(found, 1, n)
    <3>4. m \in DOMAIN q /\ q[m] = i
      BY <3>1, <3>3
    <3>. HIDE DEF q
    <3>5. i \in ToSet(q)
      BY <3>4 DEF ToSet
    <3>. QED BY <3>5 DEF q
  <2>6. CASE n < m
    <3>1. Nearer(near, ranked[n], ranked[m])
      BY <1>2, <1>4, <2>4, <2>6
    <3>2. near[ranked[m].id] \in Int /\ near[ranked[n].id] \in Int
      <4>1. \A j \in 1..Cardinality(T) : ranked[j] \in T
        BY <1>4
      <4>2. ranked[m].id \in DOMAIN d /\ ranked[n].id \in DOMAIN d
        BY <1>3, <2>3, <2>4, <4>1
      <4>. HIDE DEF near
      <4>3. \A j \in DOMAIN d : near[j] \in Int
        BY <1>1, CurationAssumption DEF near
      <4>. QED BY <4>2, <4>3
    <3>. QED BY <2>2, <2>3, <2>4, <3>1, <3>2 DEF Nearer
  <2>7. m =< n \/ n < m
    <3>1. m \in Int /\ n \in Int
      BY <2>3, <2>4
    <3>. HIDE DEF near, found
    <3>. QED BY <3>1
  <2>. HIDE DEF near, found
  <2>. QED BY <2>5, <2>6, <2>7
<1>9. ToSet(found) \subseteq Trained(records)
  BY <1>2, <1>5, <1>a DEF ToSet
<1>. QED BY <1>1, <1>6, <1>7, <1>8, <1>9, <1>a DEF found, size, NearestStored

\* What the server finds for the text of a query is what is stored for it.
ServedLikeStored(a, row, t, count, predicted) ==
    LET served == SimilarIssues(a, t[row.query], count, predicted)
    IN [n \in DOMAIN served |-> served[n].id]
          = [n \in DOMAIN row.neighbors |-> row.neighbors[n].id]

\* The server's search in an accepted index finds what was stored.
LEMMA ServedIsFound ==
    ASSUME NEW d \in Datasets, NEW records, NEW canonical, NEW c \in SplitConfigs,
           Stored(d, records, canonical, c), NEW t \in Similarities, NEW count \in Nat,
           NEW a, Shaped(a), RetrievalAgainstModelDataset(a, records, count, t),
           NEW s \in Queries, NEW k \in DOMAIN a.neighbors[s], IndexConsistent(a),
           NEW predicted
    PROVE  ServedLikeStored(a, a.neighbors[s][k], t, count, predicted)
<1>. DEFINE corpus == BuildIndex(records).corpus
            T == ToSet(corpus)
            row == a.neighbors[s][k]
            near == t[row.query]
            ranked == SortedBy(T, Nearness(near, T))
            size == Least(count, Len(corpus))
            entry(m) == [id |-> a.corpus[m].id, similarity |-> near[a.matrix[m]],
                         selected |-> a.corpus[m].selected]
            rows == {entry(m) : m \in DOMAIN a.corpus}
            order == {p \in rows \X rows :
                         \/ p[1].similarity > p[2].similarity
                         \/ p[1].similarity = p[2].similarity /\ p[1].id < p[2].id}
            listed == SortedBy(rows, order)
            served == SimilarIssues(a, near, count, predicted)
<1>1. /\ row.query \in DOMAIN d
      /\ DOMAIN row.neighbors = 1..size /\ size \in Nat
      /\ \A n \in 1..size : row.neighbors[n].id = ranked[n].id
      /\ DOMAIN a.corpus = DOMAIN corpus /\ Len(a.corpus) = Len(corpus)
      /\ \A n \in DOMAIN corpus : a.corpus[n].id = corpus[n].id
  <2>1. /\ row.query \in DOMAIN d
        /\ DOMAIN row.neighbors = 1..size /\ size \in Nat
        /\ \A n \in 1..size : row.neighbors[n].id = ranked[n].id
    BY AcceptedIsFoundAgain
  <2>2. /\ DOMAIN a.corpus = DOMAIN corpus /\ Len(a.corpus) = Len(corpus)
        /\ \A n \in DOMAIN corpus : a.corpus[n].id = corpus[n].id
    BY LoadedCorpus
  <2>. QED BY <2>1, <2>2
<1>2. size \in 0..Cardinality(T) /\ IsFiniteSet(T) /\ Orders(Nearness(near, T), T)
      /\ \A x, y \in T : <<x, y>> \in Nearness(near, T) <=> Nearer(near, x, y)
  <2>. DEFINE r == [id |-> row.query]
  <2>1. r.id = row.query
    OBVIOUS
  <2>. HIDE DEF r, row
  <2>2. NearestFound(records, r, count, t)
    BY <1>1, <2>1, RowIsNearest
  <2>. QED BY <2>1, <2>2 DEF NearestFound
<1>3. /\ Cardinality(T) = Len(corpus) /\ Len(corpus) \in Nat
      /\ \A x \in T : x.id \in DOMAIN d /\ x.id \in Int
      /\ \A x, y \in T : x # y => x.id # y.id
      /\ \A m, n \in DOMAIN corpus : corpus[m].id = corpus[n].id => m = n
  <2>1. CorpusFacts(d, records, c)
    BY CorpusOfIndex
  <2>. QED BY <2>1 DEF CorpusFacts
<1>4. \A m \in DOMAIN a.corpus : a.matrix[m] = a.corpus[m].id
  BY DEF IndexConsistent
<1>5. /\ \A m \in DOMAIN corpus : corpus[m] \in T
      /\ \A x \in T : \E m \in DOMAIN corpus : x = corpus[m]
  BY DEF ToSet
<1>6. \A x \in T : near[x.id] \in Int
  BY <1>1, <1>3, CurationAssumption
<1>7. /\ \A x \in rows : \E m \in DOMAIN a.corpus : x = entry(m)
      /\ \A m \in DOMAIN a.corpus : entry(m) \in rows
  OBVIOUS
<1>8. \A x, y \in rows : <<x, y>> \in order <=>
          \/ x.similarity > y.similarity
          \/ x.similarity = y.similarity /\ x.id < y.id
  OBVIOUS
<1>9. \A m : /\ entry(m).id = a.corpus[m].id /\ entry(m).similarity = near[a.matrix[m]]
             /\ entry(m).selected = a.corpus[m].selected
  OBVIOUS
<1>10. IsFiniteSet(rows)
  <2>. DEFINE f == [m \in DOMAIN a.corpus |-> entry(m)]
  <2>1. f \in Surjection(DOMAIN a.corpus, rows)
    <3>1. f \in [DOMAIN a.corpus -> rows] /\ \A x \in rows : \E m \in DOMAIN a.corpus : f[m] = x
      OBVIOUS
    <3>. HIDE DEF f, rows
    <3>. QED BY <3>1 DEF Surjection
  <2>2. IsFiniteSet(DOMAIN a.corpus)
    BY ListPlaces DEF Shaped, Rows
  <2>. HIDE DEF f, rows
  <2>. QED BY <2>1, <2>2, FS_Surjection
<1>11. /\ served = [n \in 1..Least(count, Len(listed)) |->
             [rank |-> n, id |-> listed[n].id, similarity |-> listed[n].similarity,
              selected |-> listed[n].selected,
              overlap |-> Shared(predicted, listed[n].selected)]]
  BY DEF SimilarIssues
<1>. HIDE DEF corpus, T, ranked, size, rows, order, listed, entry, near, served
<1>12. ASSUME NEW x \in rows
       PROVE  /\ \E y \in T : y.id = x.id
              /\ x.id \in Int /\ x.similarity = near[x.id] /\ near[x.id] \in Int
  <2>1. PICK m \in DOMAIN a.corpus : x = entry(m)
    BY <1>7
  <2>2. x.id = a.corpus[m].id /\ x.similarity = near[a.corpus[m].id]
    BY <1>4, <1>9, <2>1
  <2>3. corpus[m] \in T /\ corpus[m].id = x.id
    BY <1>1, <1>5, <2>1, <2>2
  <2>. QED BY <1>3, <1>6, <2>2, <2>3
<1>13. ASSUME NEW y \in T PROVE \E x \in rows : x.id = y.id
  <2>1. PICK m \in DOMAIN corpus : y = corpus[m]
    BY <1>5
  <2>2. entry(m) \in rows /\ entry(m).id = y.id
    BY <1>1, <1>7, <1>9, <2>1
  <2>. QED BY <2>2
<1>14. \A x, y \in rows : x # y => x.id # y.id
  <2>1. SUFFICES ASSUME NEW x \in rows, NEW y \in rows, x.id = y.id PROVE x = y
    OBVIOUS
  <2>2. PICK m \in DOMAIN a.corpus : x = entry(m)
    BY <1>7
  <2>3. PICK n \in DOMAIN a.corpus : y = entry(n)
    BY <1>7
  <2>4. corpus[m].id = corpus[n].id /\ m \in DOMAIN corpus /\ n \in DOMAIN corpus
    BY <1>1, <1>9, <2>1, <2>2, <2>3
  <2>5. m = n
    BY <1>3, <2>4
  <2>. QED BY <2>2, <2>3, <2>5
<1>15. Orders(order, rows)
  BY <1>8, <1>12, <1>14 DEF Orders
<1>16. ASSUME NEW u \in rows, NEW x \in rows, NEW v \in T, NEW y \in T,
              u.id = v.id, x.id = y.id
       PROVE  <<u, x>> \in order <=> <<v, y>> \in Nearness(near, T)
  BY <1>2, <1>8, <1>12, <1>16 DEF Nearer
<1>17. /\ Cardinality(rows) = Cardinality(T)
       /\ \A n \in 1..Cardinality(T) : listed[n].id = ranked[n].id
  BY <1>2, <1>3, <1>10, <1>12, <1>13, <1>14, <1>15, <1>16, SameOrder DEF listed, ranked
<1>18. Len(listed) = Len(corpus)
  BY <1>3, <1>10, <1>15, <1>17, Sorting DEF listed
<1>19. DOMAIN served = 1..size /\ \A n \in 1..size : served[n].id = listed[n].id
  BY <1>11, <1>18 DEF size
<1>20. \A n \in 1..size : served[n].id = row.neighbors[n].id
  BY <1>1, <1>2, <1>3, <1>17, <1>19
<1>21. [n \in DOMAIN served |-> served[n].id]
          = [n \in DOMAIN row.neighbors |-> row.neighbors[n].id]
  BY <1>1, <1>19, <1>20
<1>. QED BY <1>21 DEF served, near, ServedLikeStored

\* What is built is an index.
LEMMA BuiltIsShaped ==
    ASSUME NEW d \in Datasets, NEW records, NEW canonical, NEW c \in SplitConfigs,
           Stored(d, records, canonical, c), NEW t \in Similarities, NEW count \in Nat
    PROVE  Shaped(RetrievalOf(records, count, t))
<1>. DEFINE corpus == BuildIndex(records).corpus
            a == RetrievalOf(records, count, t)
<1>1. /\ {"corpus", "neighbors"} \subseteq DOMAIN a
      /\ a.corpus = corpus
      /\ a.neighbors = [s \in Queries |-> SearchSplit(corpus, records, s, count, t)]
  BY DEF RetrievalOf
<1>. HIDE DEF a
<1>2. Listed(corpus)
  <2>1. CorpusFacts(d, records, c)
    BY CorpusOfIndex
  <2>. QED BY <2>1 DEF CorpusFacts
<1>3. ASSUME NEW s \in Queries PROVE Rows(a.neighbors[s])
  <2>. DEFINE queries == SplitOf(records, s)
              rows == [k \in DOMAIN queries |-> RowOf(corpus, queries[k], count, t)]
  <2>1. a.neighbors[s] = rows
    BY <1>1 DEF SearchSplit
  <2>2. /\ Listed(queries) /\ Len(queries) \in Nat /\ DOMAIN queries = 1..Len(queries)
        /\ \A k \in DOMAIN queries : queries[k].id \in DOMAIN d
    BY SplitIsSorted
  <2>. HIDE DEF queries
  <2>3. Listed(rows)
    <3>1. rows \in Seq({rows[k] : k \in DOMAIN rows})
      BY <2>2
    <3>. QED BY <3>1 DEF Listed
  <2>4. ASSUME NEW k \in DOMAIN rows
        PROVE  "neighbors" \in DOMAIN rows[k] /\ Listed(rows[k].neighbors)
    <3>. DEFINE row == RowOf(corpus, queries[k], count, t)
    <3>1. rows[k] = row /\ queries[k].id \in DOMAIN d
      BY <2>2, <2>4
    <3>2. NearestFound(records, queries[k], count, t)
      BY <3>1, RowIsNearest
    <3>3. \E S : row.neighbors \in Seq(S)
      BY <3>2 DEF NearestFound
    <3>4. "neighbors" \in DOMAIN row
      BY DEF RowOf
    <3>. HIDE DEF row, rows
    <3>. QED BY <3>1, <3>3, <3>4 DEF Listed
  <2>. HIDE DEF rows
  <2>. QED BY <2>1, <2>3, <2>4 DEF Rows
<1>4. Queries = DOMAIN a.neighbors /\ Listed(a.corpus)
  BY <1>1, <1>2
<1>5. Shaped(a)
  BY <1>1, <1>3, <1>4 DEF Shaped
<1>. QED BY <1>5 DEF a

\* A list without one of its elements is a list.
LEMMA WithoutOne ==
    ASSUME NEW s, Listed(s), NEW k \in DOMAIN s
    PROVE  Listed(RemoveAt(s, k))
<1>1. PICK S : s \in Seq(S)
  BY DEF Listed
<1>2. Len(s) \in Nat /\ k \in 1..Len(s)
  BY <1>1
<1>3. SubSeq(s, 1, k - 1) \in Seq(S) /\ SubSeq(s, k + 1, Len(s)) \in Seq(S)
  BY <1>1, <1>2
<1>. QED BY <1>3 DEF RemoveAt, Listed

\* A list with one more element is a list.
LEMMA WithOneMore ==
    ASSUME NEW s, Listed(s), NEW x
    PROVE  Listed(Append(s, x))
<1>1. PICK S : s \in Seq(S)
  BY DEF Listed
<1>2. s \in Seq(S \cup {x})
  BY <1>1
<1>. QED BY <1>2 DEF Listed

\* What was changed in the directory of the index is still one.
LEMMA AlteredIsShaped ==
    ASSUME NEW d \in Datasets, NEW canonical, NEW c \in SplitConfigs,
           Stored(d, artifact.records, canonical, c), texts \in Similarities,
           Shaped(retrieval), NEW a \in AlteredIndexes
    PROVE  Shaped(a)
<1>1. ASSUME NEW s \in Queries, NEW rows, Rows(rows),
             a = [retrieval EXCEPT !.neighbors[s] = rows]
      PROVE  Shaped(a)
  BY <1>1 DEF Shaped
<1>2. CASE \E s \in Queries : \E k \in DOMAIN retrieval.neighbors["validation"]
                                         \cap DOMAIN retrieval.neighbors["test"] :
              \E other \in OtherNeighbors(retrieval.neighbors[s][k].neighbors) :
                 a = [retrieval EXCEPT !.neighbors[s][k].neighbors = other]
  <2>1. PICK s \in Queries, k \in DOMAIN retrieval.neighbors["validation"]
                                     \cap DOMAIN retrieval.neighbors["test"] :
              \E other \in OtherNeighbors(retrieval.neighbors[s][k].neighbors) :
                 a = [retrieval EXCEPT !.neighbors[s][k].neighbors = other]
    BY <1>2
  <2>. DEFINE rows == retrieval.neighbors[s]
              old == rows[k].neighbors
  <2>2. PICK other \in OtherNeighbors(old) :
                 a = [retrieval EXCEPT !.neighbors[s][k].neighbors = other]
    BY <2>1
  <2>3. k \in DOMAIN rows
    BY DEF Queries
  <2>4. Rows(rows)
    BY DEF Shaped
  <2>. HIDE DEF rows
  <2>5. Listed(old) /\ "neighbors" \in DOMAIN rows[k] /\ Listed(rows)
    BY <2>3, <2>4 DEF Rows
  <2>. HIDE DEF old
  <2>6. Listed(other)
    <3>1. CASE other = Reverse(old)
      BY <2>5, <3>1, StillListed
    <3>2. CASE other = [n \in DOMAIN old |-> [old[n] EXCEPT !.similarity = 0]]
      <4>1. Len(old) \in Nat /\ DOMAIN old = 1..Len(old)
        BY <2>5, ListPlaces
      <4>2. other \in Seq({other[n] : n \in DOMAIN old})
        BY <3>2, <4>1
      <4>. QED BY <4>2 DEF Listed
    <3>3. CASE \E n \in DOMAIN old : \E x : other = [old EXCEPT ![n].id = x]
      <4>. PICK n \in DOMAIN old : \E x : other = [old EXCEPT ![n].id = x]
        BY <3>3
      <4>1. PICK x : other = [old EXCEPT ![n] = [old[n] EXCEPT !.id = x]]
        OBVIOUS
      <4>. QED BY <2>5, <4>1, StillListed
    <3>. QED BY <2>2, <3>1, <3>2, <3>3 DEF OtherNeighbors
  <2>. DEFINE next == [rows EXCEPT ![k].neighbors = other]
  <2>7. Rows(next)
    <3>1. Listed(next)
      <4>1. next = [rows EXCEPT ![k] = [rows[k] EXCEPT !.neighbors = other]]
        OBVIOUS
      <4>. HIDE DEF next
      <4>. QED BY <2>3, <2>5, <4>1, StillListed
    <3>2. \A j \in DOMAIN next : "neighbors" \in DOMAIN next[j] /\ Listed(next[j].neighbors)
      BY <2>3, <2>4, <2>5, <2>6 DEF Rows
    <3>. HIDE DEF next
    <3>. QED BY <3>1, <3>2 DEF Rows
  <2>8. a = [retrieval EXCEPT !.neighbors[s] = next]
    BY <2>2 DEF rows
  <2>. HIDE DEF next
  <2>. QED BY <1>1, <2>7, <2>8
<1>3. CASE a \in {[retrieval EXCEPT !.corpus = Reverse(@)],
                  [retrieval EXCEPT !.corpus = Reverse(@), !.trainIds = Reverse(@),
                                    !.fitted = Reverse(@)]}
  <2>1. /\ DOMAIN a = DOMAIN retrieval /\ a.neighbors = retrieval.neighbors
        /\ a.corpus = Reverse(retrieval.corpus)
    BY <1>3 DEF Shaped
  <2>. QED BY <2>1, StillListed DEF Shaped
<1>4. CASE a = [retrieval EXCEPT !.matrix = Reverse(@)]
           \/ \E s \in Queries : a = [retrieval EXCEPT !.metrics[s].scored = @ + 1]
  <2>1. /\ DOMAIN a = DOMAIN retrieval /\ a.neighbors = retrieval.neighbors
        /\ a.corpus = retrieval.corpus
    BY <1>4 DEF Shaped
  <2>. QED BY <2>1 DEF Shaped
<1>5. CASE a = [retrieval EXCEPT !.neighbors = [s \in Queries |-> Reverse(@[s])]]
  <2>1. /\ DOMAIN a = DOMAIN retrieval /\ a.corpus = retrieval.corpus
        /\ a.neighbors = [s \in Queries |-> Reverse(retrieval.neighbors[s])]
    BY <1>5 DEF Shaped
  <2>2. ASSUME NEW s \in Queries PROVE Rows(Reverse(retrieval.neighbors[s]))
    <3>1. Rows(retrieval.neighbors[s])
      BY DEF Shaped
    <3>. QED BY <3>1, StillListed DEF Rows
  <2>3. Queries = DOMAIN a.neighbors /\ \A s \in Queries : Rows(a.neighbors[s])
    BY <2>1, <2>2
  <2>. QED BY <2>1, <2>3 DEF Shaped
<1>6. CASE \E k \in TopKs : a = [RetrievalOf(artifact.records, k, texts) EXCEPT !.topK = topK]
  <2>1. PICK k \in TopKs : a = [RetrievalOf(artifact.records, k, texts) EXCEPT !.topK = topK]
    BY <1>6
  <2>. DEFINE b == RetrievalOf(artifact.records, k, texts)
  <2>2. Shaped(b)
    <3>1. k \in Nat
      BY CurationAssumption
    <3>. QED BY <3>1, BuiltIsShaped
  <2>. HIDE DEF b
  <2>3. DOMAIN a = DOMAIN b /\ a.neighbors = b.neighbors /\ a.corpus = b.corpus
    BY <2>1, <2>2 DEF Shaped, b
  <2>. QED BY <2>2, <2>3 DEF Shaped
<1>7. CASE \E rows \in OtherCorpora : a = WithCorpus(rows)
  <2>1. PICK rows \in OtherCorpora : a = WithCorpus(rows)
    BY <1>7
  <2>. DEFINE old == retrieval.corpus
              strangers == {CorpusRecord(r) : r \in ToSet(artifact.records)}
  <2>2. Listed(old)
    BY DEF Shaped
  <2>3. \/ rows = Reverse(old)
        \/ \E k \in DOMAIN old : rows = RemoveAt(old, k)
        \/ \E x \in strangers : rows = Append(old, x)
        \/ \E k \in DOMAIN old, x \in strangers : rows = [old EXCEPT ![k] = x]
    <3>. DEFINE shorter == {RemoveAt(old, k) : k \in DOMAIN old}
                longer == {Append(old, row) : row \in strangers}
                other == {[old EXCEPT ![k] = row] : k \in DOMAIN old, row \in strangers}
    <3>1. OtherCorpora = {Reverse(old)} \cup shorter \cup longer \cup other
      BY DEF OtherCorpora
    <3>. HIDE DEF old, strangers
    <3>2. rows \in shorter => \E k \in DOMAIN old : rows = RemoveAt(old, k)
      OBVIOUS
    <3>3. rows \in longer => \E x \in strangers : rows = Append(old, x)
      OBVIOUS
    <3>4. rows \in other => \E k \in DOMAIN old, x \in strangers : rows = [old EXCEPT ![k] = x]
      OBVIOUS
    <3>. HIDE DEF shorter, longer, other
    <3>. QED BY <3>1, <3>2, <3>3, <3>4
  <2>. HIDE DEF old, strangers
  <2>4. ASSUME NEW k \in DOMAIN old PROVE Listed(RemoveAt(old, k))
    BY <2>2, WithoutOne
  <2>5. ASSUME NEW x PROVE Listed(Append(old, x))
    BY <2>2, WithOneMore
  <2>6. Listed(rows)
    <3>1. ASSUME NEW k \in DOMAIN old, NEW x PROVE Listed([old EXCEPT ![k] = x])
      BY <2>2, StillListed
    <3>2. Listed(Reverse(old))
      BY <2>2, StillListed
    <3>. QED BY <2>3, <2>4, <2>5, <3>1, <3>2
  <2>7. /\ DOMAIN a = DOMAIN retrieval /\ a.neighbors = retrieval.neighbors
        /\ a.corpus = rows
    BY <2>1 DEF Shaped, WithCorpus
  <2>. QED BY <2>6, <2>7 DEF Shaped
<1>. QED BY <1>2, <1>3, <1>4, <1>5, <1>6, <1>7 DEF AlteredIndexes

-----------------------------------------------------------------------------
(* Records and issues.                                                     *)

\* The records in A are those of the issues in B.
LEMMA OneRecordEach ==
    ASSUME NEW d \in Datasets, NEW records, Listed(records), Len(records) = Len(d),
           \A k \in DOMAIN records : records[k].id \in DOMAIN d,
           \A j, k \in DOMAIN records : j # k => records[j].id # records[k].id,
           NEW A, A \subseteq DOMAIN records, NEW B, B \subseteq DOMAIN d,
           \A k \in DOMAIN records : k \in A <=> records[k].id \in B
    PROVE  Cardinality(A) = Cardinality(B) /\ Cardinality(B) \in Nat
<1>. DEFINE f == [k \in A |-> records[k].id]
<1>1. IsFiniteSet(A)
  BY ListPlaces, FS_Subset
<1>2. \A i \in B : \E k \in A : f[k] = i
  <2>1. PICK S : records \in Seq(S)
    BY DEF Listed
  <2>2. {records[k].id : k \in DOMAIN records} = DOMAIN d
    BY <2>1, EveryIssueHasARecord
  <2>. QED BY <2>2
<1>3. f \in [A -> B] /\ \A j, k \in A : f[j] = f[k] => j = k
  OBVIOUS
<1>. HIDE DEF f
<1>4. f \in Bijection(A, B)
  BY <1>2, <1>3 DEF Bijection, Injection, Surjection, IsInjective
<1>. QED BY <1>1, <1>4, FS_Bijection, FS_CardinalityType DEF ExistsBijection

\* The targets of a record are the labels of its issue that are targets.
LEMMA TargetsOfARecord ==
    ASSUME NEW d \in Datasets, NEW canonical, Listed(canonical), NEW c,
           NEW id \in DOMAIN d
    PROVE  LET r == RecordOf(d, id, canonical, c)
           IN /\ \A p \in DOMAIN canonical :
                    r.target[p] = 1 <=> canonical[p] \in d[id].labels
              /\ Ones(r.target) > 0 <=> d[id].labels \cap ToSet(canonical) # {}
<1>. DEFINE r == RecordOf(d, id, canonical, c)
            marked == {p \in DOMAIN canonical : canonical[p] \in d[id].labels}
<1>1. r.target = [p \in DOMAIN canonical |-> IF canonical[p] \in d[id].labels THEN 1 ELSE 0]
  BY DEF RecordOf, TargetVector
<1>2. \A p \in DOMAIN canonical : r.target[p] = 1 <=> canonical[p] \in d[id].labels
  BY <1>1
<1>3. Ones(r.target) = Cardinality(marked)
  <2>1. {p \in DOMAIN r.target : r.target[p] = 1} = marked
    BY <1>1
  <2>. HIDE DEF r, marked
  <2>. QED BY <2>1 DEF Ones
<1>4. Cardinality(marked) > 0 <=> marked # {}
  <2>1. marked \in SUBSET DOMAIN canonical /\ IsFiniteSet(DOMAIN canonical)
    BY ListPlaces
  <2>. HIDE DEF marked
  <2>2. IsFiniteSet(marked) /\ Cardinality(marked) \in Nat
    BY <2>1, FS_Subset, FS_CardinalityType
  <2>. QED BY <2>2, FS_EmptySet
<1>5. marked # {} <=> d[id].labels \cap ToSet(canonical) # {}
  BY DEF ToSet
<1>. QED BY <1>2, <1>3, <1>4, <1>5

\* As many records with a target as there are issues with one, and as many assignments.
LEMMA TargetsAreCarriedOver ==
    ASSUME NEW d \in Datasets, NEW canonical, Listed(canonical), NEW c,
           Cardinality(ToSet(canonical)) = Len(canonical),
           NEW records, Stored(d, records, canonical, c), Len(records) = Len(d),
           \A j, k \in DOMAIN records : j # k => records[j].id # records[k].id
    PROVE  /\ GlobalStatistics(records, canonical).withTarget
                = Cardinality({i \in DOMAIN d : d[i].labels \cap ToSet(canonical) # {}})
           /\ GlobalStatistics(records, canonical).assignments
                = Cardinality({p \in (DOMAIN d) \X ToSet(canonical) : p[2] \in d[p[1]].labels})
           /\ \A place \in DOMAIN canonical, name \in SplitNames :
                /\ Positives(records, name, place)
                     = Cardinality({i \in DOMAIN d : /\ canonical[place] \in d[i].labels
                                                     /\ AssignSplit(d[i].created, c) = name})
                /\ Positives(records, name, place) \in Nat
<1>1. Listed(records) /\ \A k \in DOMAIN records : records[k].id \in DOMAIN d
  BY DEF Stored
<1>2. \A k \in DOMAIN records :
         /\ \A p \in DOMAIN canonical :
               records[k].target[p] = 1 <=> canonical[p] \in d[records[k].id].labels
         /\ Ones(records[k].target) > 0 <=> d[records[k].id].labels \cap ToSet(canonical) # {}
         /\ records[k].split = AssignSplit(d[records[k].id].created, c)
  <2>. SUFFICES ASSUME NEW k \in DOMAIN records
       PROVE /\ \A p \in DOMAIN canonical :
                   records[k].target[p] = 1 <=> canonical[p] \in d[records[k].id].labels
             /\ Ones(records[k].target) > 0
                   <=> d[records[k].id].labels \cap ToSet(canonical) # {}
             /\ records[k].split = AssignSplit(d[records[k].id].created, c)
    OBVIOUS
  <2>. DEFINE r == RecordOf(d, records[k].id, canonical, c)
  <2>1. r.split = AssignSplit(d[records[k].id].created, c)
    BY DEF RecordOf
  <2>2. records[k] = r
    BY DEF Stored
  <2>3. /\ \A p \in DOMAIN canonical :
              r.target[p] = 1 <=> canonical[p] \in d[records[k].id].labels
        /\ Ones(r.target) > 0 <=> d[records[k].id].labels \cap ToSet(canonical) # {}
    BY <1>1, TargetsOfARecord
  <2>. HIDE DEF r
  <2>. QED BY <2>1, <2>2, <2>3
<1>3. GlobalStatistics(records, canonical).withTarget
        = Cardinality({i \in DOMAIN d : d[i].labels \cap ToSet(canonical) # {}})
  <2>. DEFINE A == {k \in DOMAIN records : Ones(records[k].target) > 0}
              B == {i \in DOMAIN d : d[i].labels \cap ToSet(canonical) # {}}
  <2>1. /\ A \subseteq DOMAIN records /\ B \subseteq DOMAIN d
        /\ \A k \in DOMAIN records : k \in A <=> records[k].id \in B
    BY <1>1, <1>2
  <2>2. GlobalStatistics(records, canonical).withTarget = Cardinality(A)
    BY DEF GlobalStatistics
  <2>. HIDE DEF A, B
  <2>3. Cardinality(A) = Cardinality(B)
    BY <1>1, <2>1, OneRecordEach
  <2>. QED BY <2>2, <2>3 DEF B
<1>4. GlobalStatistics(records, canonical).assignments
        = Cardinality({p \in (DOMAIN d) \X ToSet(canonical) : p[2] \in d[p[1]].labels})
  <2>. DEFINE A == {p \in (DOMAIN records) \X (DOMAIN canonical) :
                       records[p[1]].target[p[2]] = 1}
              B == {p \in (DOMAIN d) \X ToSet(canonical) : p[2] \in d[p[1]].labels}
              f == [p \in A |-> <<records[p[1]].id, canonical[p[2]]>>]
  <2>1. \A p, q \in DOMAIN canonical : canonical[p] = canonical[q] => p = q
    <3>. DEFINE g == [p \in DOMAIN canonical |-> canonical[p]]
    <3>1. g \in [DOMAIN canonical -> ToSet(canonical)]
          /\ \A x \in ToSet(canonical) : \E p \in DOMAIN canonical : g[p] = x
      BY DEF ToSet
    <3>2. /\ IsFiniteSet(DOMAIN canonical)
          /\ Cardinality(DOMAIN canonical) = Cardinality(ToSet(canonical))
      <4>1. /\ Len(canonical) \in Int /\ 1 \in Int /\ Len(canonical) >= 0
            /\ DOMAIN canonical = 1..Len(canonical)
        BY ListPlaces
      <4>2. /\ IsFiniteSet(1..Len(canonical))
            /\ Cardinality(1..Len(canonical))
                  = IF 1 > Len(canonical) THEN 0 ELSE Len(canonical) - 1 + 1
        BY <4>1, FS_Interval
      <4>. QED BY <4>1, <4>2
    <3>3. \A p, q \in DOMAIN canonical : g[p] = g[q] => p = q
      <4>. HIDE DEF g
      <4>1. g \in Surjection(DOMAIN canonical, ToSet(canonical))
        BY <3>1 DEF Surjection
      <4>2. g \in Injection(DOMAIN canonical, ToSet(canonical))
        BY <3>2, <4>1, FS_Surjection
      <4>. QED BY <4>2 DEF Injection, IsInjective
    <3>. QED BY <3>3
  <2>2. {records[k].id : k \in DOMAIN records} = DOMAIN d
    <3>1. PICK S : records \in Seq(S)
      BY <1>1 DEF Listed
    <3>. QED BY <1>1, <3>1, EveryIssueHasARecord
  <2>3. \A p \in A : f[p] \in B
    BY <1>1, <1>2 DEF ToSet
  <2>4. ASSUME NEW q \in B PROVE \E p \in A : f[p] = q
    <3>1. PICK i \in DOMAIN d, l \in ToSet(canonical) : q = <<i, l>> /\ l \in d[i].labels
      OBVIOUS
    <3>2. PICK k \in DOMAIN records : records[k].id = i
      BY <2>2
    <3>3. PICK p \in DOMAIN canonical : canonical[p] = l
      BY DEF ToSet
    <3>4. <<k, p>> \in A
      BY <1>2, <3>1, <3>2, <3>3
    <3>5. f[<<k, p>>] = q
      BY <3>1, <3>2, <3>3, <3>4
    <3>. QED BY <3>4, <3>5
  <2>5. ASSUME NEW p \in A, NEW q \in A, f[p] = f[q] PROVE p = q
    <3>1. /\ p = <<p[1], p[2]>> /\ q = <<q[1], q[2]>>
          /\ p[1] \in DOMAIN records /\ q[1] \in DOMAIN records
          /\ p[2] \in DOMAIN canonical /\ q[2] \in DOMAIN canonical
      OBVIOUS
    <3>2. records[p[1]].id = records[q[1]].id /\ canonical[p[2]] = canonical[q[2]]
      BY <2>5
    <3>3. p[1] = q[1] /\ p[2] = q[2]
      BY <2>1, <3>1, <3>2
    <3>. QED BY <3>1, <3>3
  <2>6. IsFiniteSet(A)
    <3>1. IsFiniteSet((DOMAIN records) \X (DOMAIN canonical))
      BY <1>1, ListPlaces, FS_Product
    <3>2. A \subseteq (DOMAIN records) \X (DOMAIN canonical)
      OBVIOUS
    <3>. HIDE DEF A
    <3>. QED BY <3>1, <3>2, FS_Subset
  <2>7. GlobalStatistics(records, canonical).assignments = Cardinality(A)
    BY DEF GlobalStatistics
  <2>8. f = [p \in A |-> f[p]] /\ DOMAIN f = A
    OBVIOUS
  <2>. HIDE DEF A, B, f
  <2>9. f \in Bijection(A, B)
    <3>1. f \in [A -> B]
      BY <2>3, <2>8
    <3>. QED BY <2>4, <2>5, <3>1 DEF Bijection, Injection, Surjection, IsInjective
  <2>10. Cardinality(A) = Cardinality(B)
    BY <2>6, <2>9, FS_Bijection DEF ExistsBijection
  <2>. QED BY <2>7, <2>10 DEF B
<1>5. ASSUME NEW place \in DOMAIN canonical, NEW name \in SplitNames
      PROVE  /\ Positives(records, name, place)
                  = Cardinality({i \in DOMAIN d : /\ canonical[place] \in d[i].labels
                                                  /\ AssignSplit(d[i].created, c) = name})
             /\ Positives(records, name, place) \in Nat
  <2>. DEFINE A == {k \in InSplit(records, name) : records[k].target[place] = 1}
              B == {i \in DOMAIN d : /\ canonical[place] \in d[i].labels
                                     /\ AssignSplit(d[i].created, c) = name}
  <2>1. /\ A \subseteq DOMAIN records /\ B \subseteq DOMAIN d
        /\ \A k \in DOMAIN records : k \in A <=> records[k].id \in B
    BY <1>1, <1>2 DEF InSplit
  <2>2. Positives(records, name, place) = Cardinality(A)
    BY DEF Positives
  <2>. HIDE DEF A, B
  <2>3. Cardinality(A) = Cardinality(B) /\ Cardinality(B) \in Nat
    BY <1>1, <2>1, OneRecordEach
  <2>. QED BY <2>2, <2>3 DEF B
<1>. QED BY <1>3, <1>4, <1>5

-----------------------------------------------------------------------------
(* What the audit has counted.                                             *)

\* What the audit has counted after the first n issues.
Counted(seen, d, n) ==
    /\ seen.total = n /\ seen.labelled \in Int
    /\ n = 0 => seen.earliest = None /\ seen.latest = None
    /\ n # 0 => /\ seen.earliest \in Times /\ seen.latest \in Times
                /\ \A i \in 1..n : seen.earliest =< d[i].created /\ d[i].created =< seen.latest
    /\ seen.byMonth = [m \in {MonthOf[d[i].created] : i \in 1..n} |->
                          Cardinality({i \in 1..n : MonthOf[d[i].created] = m})]
    /\ DOMAIN seen.tallies = UNION {d[i].labels : i \in 1..n}
    /\ \A l \in DOMAIN seen.tallies :
          seen.tallies[l].count = Cardinality({i \in 1..n : l \in d[i].labels})

\* Before the first issue.
LEMMA NothingCounted ==
    ASSUME NEW d
    PROVE  Counted(Nothing, d, 0)
<1>1. 1..0 = {}
  OBVIOUS
<1>2. /\ Nothing.total = 0 /\ Nothing.labelled = 0 /\ Nothing.earliest = None
      /\ Nothing.latest = None /\ Nothing.byMonth = <<>> /\ Nothing.tallies = <<>>
  BY DEF Nothing
<1>3. DOMAIN <<>> = {} /\ [m \in {} |-> Cardinality({i \in {} : MonthOf[d[i].created] = m})] = <<>>
  OBVIOUS
<1>4. {MonthOf[d[i].created] : i \in {}} = {} /\ UNION {d[i].labels : i \in {}} = {}
  OBVIOUS
<1>. QED BY <1>1, <1>2, <1>3, <1>4 DEF Counted

\* One more issue.
LEMMA CountedOn ==
    ASSUME NEW d, NEW n \in Nat, n # 0, \A i \in 1..n : d[i].created \in Times,
           NEW seen, Counted(seen, d, n - 1)
    PROVE  Counted(Add(seen, d[n]), d, n)
<1>. DEFINE issue == d[n]
            month == MonthOf[issue.created]
            new == Add(seen, issue)
            tallies == [l \in DOMAIN seen.tallies \cup issue.labels |->
                           IF l \in issue.labels THEN Tally(seen.tallies, l, issue.created)
                           ELSE seen.tallies[l]]
<1>1. /\ new.total = seen.total + 1 /\ new.earliest = Earlier(issue.created, seen.earliest)
      /\ new.labelled = seen.labelled + (IF issue.labels = {} THEN 0 ELSE 1)
      /\ new.latest = Later(issue.created, seen.latest)
      /\ new.byMonth = CountedOnce(seen.byMonth, month) /\ new.tallies = tallies
  BY DEF Add
<1>2. n - 1 \in Nat /\ 1..n = (1..(n - 1)) \cup {n} /\ n \in 1..n
  OBVIOUS
<1>3. issue.created \in Times /\ Times \subseteq Int /\ None \notin Times
  BY <1>2, AuditAssumption
<1>4. new.total = n /\ new.labelled \in Int
  BY <1>1, <1>2 DEF Counted
<1>5. /\ new.earliest \in Times /\ new.latest \in Times
      /\ \A i \in 1..n : new.earliest =< d[i].created /\ d[i].created =< new.latest
  <2>1. CASE n - 1 = 0
    <3>1. seen.earliest = None /\ seen.latest = None /\ \A i \in 1..n : i = n
      BY <1>2, <2>1 DEF Counted
    <3>. HIDE DEF new
    <3>2. new.earliest = issue.created /\ new.latest = issue.created
      <4>1. \A t : Earlier(t, None) = t /\ Later(t, None) = t
        BY DEF Earlier, Later
      <4>. HIDE DEF issue
      <4>. QED BY <1>1, <3>1, <4>1
    <3>3. issue.created =< issue.created
      <4>1. \A t \in Int : t =< t
        OBVIOUS
      <4>2. issue.created \in Int
        BY <1>3
      <4>. HIDE DEF issue
      <4>. QED BY <4>1, <4>2
    <3>. QED BY <1>3, <3>1, <3>2, <3>3
  <2>2. CASE n - 1 # 0
    <3>1. /\ seen.earliest \in Times /\ seen.latest \in Times
          /\ \A i \in 1..(n - 1) : seen.earliest =< d[i].created /\ d[i].created =< seen.latest
      BY <2>2 DEF Counted
    <3>2. \A i \in 1..n : i = n \/ i \in 1..(n - 1)
      BY <1>2
    <3>3. /\ new.earliest = IF issue.created < seen.earliest THEN issue.created ELSE seen.earliest
          /\ new.latest = IF issue.created > seen.latest THEN issue.created ELSE seen.latest
      <4>1. seen.earliest # None /\ seen.latest # None
        BY <1>3, <3>1
      <4>. HIDE DEF new
      <4>. QED BY <1>1, <4>1 DEF Earlier, Later
    <3>. DEFINE e == new.earliest
                f == new.latest
                t == issue.created
                u == seen.earliest
                v == seen.latest
    <3>4. /\ t \in Times /\ u \in Times /\ v \in Times
          /\ t \in Int /\ u \in Int /\ v \in Int
          /\ e = (IF t < u THEN t ELSE u) /\ f = (IF t > v THEN t ELSE v)
      BY <1>3, <3>1, <3>3
    <3>5. \A i \in 1..n : d[i].created = t \/ (u =< d[i].created /\ d[i].created =< v)
      BY <3>1, <3>2
    <3>6. \A i \in 1..n : d[i].created \in Int
      BY <1>3
    <3>. HIDE DEF e, f, t, u, v
    <3>7. /\ e \in Times /\ f \in Times /\ e \in Int /\ f \in Int
          /\ e =< t /\ e =< u /\ t =< f /\ v =< f
      BY <3>4
    <3>8. \A i \in 1..n : e =< d[i].created /\ d[i].created =< f
      BY <3>4, <3>5, <3>6, <3>7
    <3>. QED BY <3>7, <3>8 DEF e, f
  <2>. QED BY <2>1, <2>2
<1>6. new.byMonth = [m \in {MonthOf[d[i].created] : i \in 1..n} |->
                        Cardinality({i \in 1..n : MonthOf[d[i].created] = m})]
  <2>. DEFINE old == {MonthOf[d[i].created] : i \in 1..(n - 1)}
              Of(m) == {i \in 1..n : MonthOf[d[i].created] = m}
              Before(m) == {i \in 1..(n - 1) : MonthOf[d[i].created] = m}
  <2>1. {MonthOf[d[i].created] : i \in 1..n} = old \cup {month}
    BY <1>2
  <2>2. seen.byMonth = [m \in old |-> Cardinality(Before(m))]
    BY DEF Counted
  <2>3. ASSUME NEW m PROVE Cardinality(Of(m)) = Cardinality(Before(m)) + (IF m = month THEN 1 ELSE 0)
    <3>. DEFINE T == {i \in 1..n : MonthOf[d[i].created] = m}
    <3>1. Of(m) = (1..n) \cap T /\ Before(m) = (1..(n - 1)) \cap T /\ (n \in T <=> m = month)
      BY <1>2
    <3>2. Cardinality((1..n) \cap T)
            = Cardinality((1..(n - 1)) \cap T) + (IF n \in T THEN 1 ELSE 0)
      <4>. HIDE DEF T
      <4>. QED BY CountsOn
    <3>. HIDE DEF T, Of, Before, month
    <3>. QED BY <3>1, <3>2
  <2>4. ASSUME NEW m, m \notin old PROVE Cardinality(Before(m)) = 0
    <3>1. Before(m) = {}
      BY <2>4
    <3>. QED BY <3>1, FS_EmptySet
  <2>5. ASSUME NEW m PROVE Copies(m, seen.byMonth) = Cardinality(Before(m))
    <3>. HIDE DEF old, Before
    <3>. QED BY <2>2, <2>4 DEF Copies
  <2>6. new.byMonth = [m \in old \cup {month} |->
                          Copies(m, seen.byMonth) + (IF m = month THEN 1 ELSE 0)]
    <3>1. DOMAIN seen.byMonth = old
      BY <2>2
    <3>. QED BY <1>1, <3>1 DEF CountedOnce
  <2>7. \A m : Copies(m, seen.byMonth) + (IF m = month THEN 1 ELSE 0) = Cardinality(Of(m))
    <3>. HIDE DEF old, Of, Before, month, new
    <3>. QED BY <2>3, <2>5
  <2>8. new.byMonth = [m \in old \cup {month} |-> Cardinality(Of(m))]
    <3>. HIDE DEF old, Of, Before, month, new
    <3>. QED BY <2>6, <2>7
  <2>. QED BY <2>1, <2>8
<1>7. DOMAIN new.tallies = UNION {d[i].labels : i \in 1..n}
  <2>1. DOMAIN new.tallies = (DOMAIN seen.tallies) \cup issue.labels
    BY <1>1
  <2>2. DOMAIN seen.tallies = UNION {d[i].labels : i \in 1..(n - 1)}
    BY DEF Counted
  <2>3. UNION {d[i].labels : i \in 1..n}
          = (UNION {d[i].labels : i \in 1..(n - 1)}) \cup d[n].labels
    BY <1>2
  <2>. QED BY <2>1, <2>2, <2>3
<1>8. ASSUME NEW l \in DOMAIN new.tallies
      PROVE  new.tallies[l].count = Cardinality({i \in 1..n : l \in d[i].labels})
  <2>. DEFINE T == {i \in 1..n : l \in d[i].labels}
              B == {i \in 1..(n - 1) : l \in d[i].labels}
  <2>1. T = (1..n) \cap T /\ B = (1..(n - 1)) \cap T /\ (n \in T <=> l \in issue.labels)
    BY <1>2
  <2>2. /\ Cardinality((1..n) \cap T)
             = Cardinality((1..(n - 1)) \cap T) + (IF n \in T THEN 1 ELSE 0)
        /\ Cardinality((1..(n - 1)) \cap T) \in Nat
    <3>. HIDE DEF T
    <3>. QED BY CountsOn
  <2>3. Cardinality(T) = Cardinality(B) + (IF l \in issue.labels THEN 1 ELSE 0)
        /\ Cardinality(B) \in Nat
    <3>. HIDE DEF T, B, issue
    <3>. QED BY <2>1, <2>2
  <2>4. l \in DOMAIN seen.tallies => seen.tallies[l].count = Cardinality(B)
    BY DEF Counted
  <2>5. l \notin DOMAIN seen.tallies => Cardinality(B) = 0
    <3>1. l \notin DOMAIN seen.tallies => B = {}
      BY DEF Counted
    <3>. HIDE DEF B
    <3>. QED BY <3>1, FS_EmptySet
  <2>6. CASE l \in issue.labels
    <3>1. new.tallies[l] = Tally(seen.tallies, l, issue.created)
      BY <1>1, <2>6
    <3>2. Tally(seen.tallies, l, issue.created).count
            = (IF l \in DOMAIN seen.tallies THEN seen.tallies[l].count ELSE 0) + 1
      BY DEF Tally
    <3>. HIDE DEF T, B, issue, new
    <3>3. Cardinality(T) = Cardinality(B) + 1
      BY <2>3, <2>6
    <3>4. (IF l \in DOMAIN seen.tallies THEN seen.tallies[l].count ELSE 0) = Cardinality(B)
      BY <2>4, <2>5
    <3>5. new.tallies[l].count = Cardinality(T)
      BY <3>1, <3>2, <3>3, <3>4
    <3>. QED BY <3>5 DEF T
  <2>7. CASE l \notin issue.labels
    <3>1. new.tallies[l] = seen.tallies[l] /\ l \in DOMAIN seen.tallies
      BY <1>1, <1>8, <2>7
    <3>. HIDE DEF T, B, issue, new
    <3>2. new.tallies[l].count = Cardinality(T)
      BY <2>3, <2>4, <2>7, <3>1
    <3>. QED BY <3>2 DEF T
  <2>. QED BY <2>6, <2>7
<1>. HIDE DEF new
<1>9. Counted(new, d, n)
  BY <1>4, <1>5, <1>6, <1>7, <1>8 DEF Counted
<1>. QED BY <1>9 DEF new

\* The audit's pass over the first n issues.
Passes(f, d, n) == f = [k \in 0..n |-> IF k = 0 THEN Nothing ELSE Add(f[k - 1], d[k])]

\* There is one for any number of issues.
LEMMA PassExists ==
    ASSUME NEW d, NEW N \in Nat
    PROVE  \E f : Passes(f, d, N)
<1>. DEFINE G == {n \in Nat : \E f : Passes(f, d, n)}
<1>1. SUFFICES ASSUME Nat \ G # {} PROVE FALSE
  OBVIOUS
<1>2. PICK m \in Nat \ G : \A k \in Nat : k < m => k \in G
  <2>. HIDE DEF G
  <2>. QED BY <1>1, FirstMissing
<1>3. m # 0
  <2>. DEFINE f == [k \in 0..0 |-> Nothing]
  <2>1. f = [k \in 0..0 |-> IF k = 0 THEN Nothing ELSE Add(f[k - 1], d[k])]
    OBVIOUS
  <2>. HIDE DEF f
  <2>2. Passes(f, d, 0)
    BY <2>1 DEF Passes
  <2>. QED BY <2>2
<1>4. m - 1 \in Nat /\ m - 1 < m
  BY <1>3
<1>5. PICK f : Passes(f, d, m - 1)
  BY <1>2, <1>4
<1>. DEFINE g == [k \in 0..m |-> IF k = m THEN Add(f[m - 1], d[m]) ELSE f[k]]
<1>6. DOMAIN f = 0..(m - 1) /\ \A k \in 0..(m - 1) :
         f[k] = IF k = 0 THEN Nothing ELSE Add(f[k - 1], d[k])
  BY <1>5 DEF Passes
<1>7. \A k \in 0..m : g[k] = IF k = 0 THEN Nothing ELSE Add(g[k - 1], d[k])
  <2>. SUFFICES ASSUME NEW k \in 0..m
                PROVE  g[k] = IF k = 0 THEN Nothing ELSE Add(g[k - 1], d[k])
    OBVIOUS
  <2>1. CASE k = m
    <3>1. m - 1 \in 0..m /\ m - 1 # m
      BY <1>4
    <3>2. g[m - 1] = f[m - 1] /\ g[m] = Add(f[m - 1], d[m])
      BY <3>1
    <3>. HIDE DEF g
    <3>. QED BY <1>3, <2>1, <3>2
  <2>2. CASE k # m
    <3>1. k \in 0..(m - 1) /\ g[k] = f[k]
      BY <2>2
    <3>2. k # 0 => k - 1 \in 0..m /\ k - 1 # m
      BY <1>4
    <3>3. k # 0 => g[k - 1] = f[k - 1]
      BY <3>2
    <3>. HIDE DEF g
    <3>. QED BY <1>6, <3>1, <3>3
  <2>. QED BY <2>1, <2>2
<1>8. Passes(g, d, m)
  <2>1. g = [k \in 0..m |-> g[k]]
    OBVIOUS
  <2>. HIDE DEF g
  <2>2. g = [k \in 0..m |-> IF k = 0 THEN Nothing ELSE Add(g[k - 1], d[k])]
    BY <1>7, <2>1
  <2>. QED BY <2>2 DEF Passes
<1>. QED BY <1>8

\* The audit has counted all issues.
LEMMA AllAreCounted ==
    ASSUME NEW d, Len(d) \in Nat, \A i \in 1..Len(d) : d[i].created \in Times
    PROVE  Counted(Analyze(d), d, Len(d))
<1>. DEFINE N == Len(d)
            h == CHOOSE f : Passes(f, d, N)
<1>1. Analyze(d) = h[N]
  BY DEF Analyze, Passes
<1>2. Passes(h, d, N)
  BY PassExists
<1>. HIDE DEF h
<1>3. \A n \in 0..N : h[n] = IF n = 0 THEN Nothing ELSE Add(h[n - 1], d[n])
  BY <1>2 DEF Passes
<1>4. \A n \in Nat : n \in 0..N => Counted(h[n], d, n)
  <2>. DEFINE G == {n \in Nat : n \in 0..N => Counted(h[n], d, n)}
  <2>1. SUFFICES ASSUME Nat \ G # {} PROVE FALSE
    OBVIOUS
  <2>2. PICK m \in Nat \ G : \A k \in Nat : k < m => k \in G
    <3>. HIDE DEF G
    <3>. QED BY <2>1, FirstMissing
  <2>3. m \in 0..N /\ ~Counted(h[m], d, m)
    OBVIOUS
  <2>4. m # 0
    BY <1>3, <2>3, NothingCounted
  <2>5. m - 1 \in Nat /\ m - 1 \in 0..N /\ m - 1 < m /\ 1..m \subseteq 1..N
    BY <2>3, <2>4
  <2>6. Counted(h[m - 1], d, m - 1)
    BY <2>2, <2>5
  <2>7. Counted(Add(h[m - 1], d[m]), d, m)
    BY <2>4, <2>5, <2>6, CountedOn
  <2>. QED BY <1>3, <2>3, <2>4, <2>7
<1>. QED BY <1>1, <1>4

\* Labels are ranked by their counts and their names.
LEMMA RankOrders ==
    ASSUME NEW labels, labels \subseteq Int, NEW count, \A l \in labels : count[l] \in Int
    PROVE  Orders(RankOrder(count, labels), labels)
<1>1. \A x, y \in labels : <<x, y>> \in RankOrder(count, labels)
                             <=> (count[x] > count[y] \/ (count[x] = count[y] /\ x < y))
  BY DEF RankOrder
<1>. QED BY <1>1 DEF Orders

\* What is ranked is a list of all labels, each of them once.
LEMMA RankedAreListed ==
    ASSUME NEW labels, IsFiniteSet(labels), labels \subseteq Int, NEW count,
           \A l \in labels : count[l] \in Int
    PROVE  LET s == RankedBy(count, labels)
           IN /\ Listed(s) /\ Len(s) = Cardinality(labels) /\ Len(s) \in Nat
              /\ DOMAIN s = 1..Len(s) /\ ToSet(s) = labels
              /\ \A j, k \in DOMAIN s : j # k => s[j] # s[k]
<1>. DEFINE b == RankOrder(count, labels)
            s == SortedBy(labels, b)
<1>1. Orders(b, labels)
  BY RankOrders
<1>. HIDE DEF b
<1>2. /\ s \in Seq(labels) /\ Len(s) = Cardinality(labels) /\ Cardinality(labels) \in Nat
      /\ DOMAIN s = 1..Cardinality(labels)
      /\ \A x \in labels : \E k \in 1..Cardinality(labels) : s[k] = x
      /\ \A k \in 1..Cardinality(labels) : s[k] \in labels
      /\ \A j, k \in 1..Cardinality(labels) : <<s[j], s[k]>> \in b <=> j < k
  BY <1>1, Sorting
<1>3. RankedBy(count, labels) = s
  BY DEF RankedBy, b
<1>. HIDE DEF s
<1>4. ToSet(s) = labels
  BY <1>2 DEF ToSet
<1>5. ASSUME NEW j \in DOMAIN s, NEW k \in DOMAIN s, j # k PROVE s[j] # s[k]
  <2>1. j < k \/ k < j
    BY <1>2, <1>5
  <2>2. <<s[j], s[k]>> \in b \/ <<s[k], s[j]>> \in b
    BY <1>2, <2>1
  <2>. QED BY <1>1, <1>2, <2>2 DEF Orders
<1>. QED BY <1>2, <1>3, <1>4, <1>5 DEF Listed

\* The audit of a dataset: its labels are those of the issues, with the counts of them,
\* and its months are those of the issues.
LEMMA AuditCounts ==
    ASSUME NEW d \in Datasets, d # <<>>
    PROVE  ConsistentAudit(AuditOf(d)) /\ AgreesWithAudit(d, AuditOf(d))
<1>. DEFINE seen == Analyze(d)
            a == AuditOf(d)
            N == Len(d)
            tallied == DOMAIN seen.tallies
            count == [l \in tallied |-> seen.tallies[l].count]
            ranked == RankedBy(count, tallied)
            months == {MonthOf[d[i].created] : i \in 1..N}
<1>1. /\ N \in Nat /\ N # 0 /\ DOMAIN d = 1..N
      /\ \A i \in 1..N : d[i].created \in Times
  <2>1. d \in Seq(Issue) /\ N \in Nat /\ DOMAIN d = 1..N
    BY IssuesAreListed
  <2>2. \A i \in 1..N : d[i] \in Issue
    BY <2>1
  <2>. QED BY <2>1, <2>2 DEF Issue
<1>2. Counted(seen, d, N)
  BY <1>1, AllAreCounted
<1>. HIDE DEF seen
<1>3. /\ seen.total = N /\ seen.labelled \in Int
      /\ seen.earliest \in Times /\ seen.latest \in Times
      /\ \A i \in 1..N : seen.earliest =< d[i].created /\ d[i].created =< seen.latest
      /\ seen.byMonth = [m \in months |-> Cardinality({i \in 1..N : MonthOf[d[i].created] = m})]
      /\ tallied = UNION {d[i].labels : i \in 1..N}
      /\ \A l \in tallied : seen.tallies[l].count = Cardinality({i \in 1..N : l \in d[i].labels})
  BY <1>1, <1>2 DEF Counted
<1>4. /\ Times \subseteq Int /\ None \notin Times /\ MonthOf \in [Times -> Int]
      /\ \A t, u \in Times : t =< u => MonthOf[t] =< MonthOf[u]
  BY AuditAssumption
<1>5. seen.earliest =< seen.latest
  <2>1. /\ seen.earliest =< d[1].created /\ d[1].created =< seen.latest
        /\ seen.earliest \in Int /\ seen.latest \in Int /\ d[1].created \in Int
    <3>1. 1 \in 1..N
      BY <1>1
    <3>. QED BY <1>1, <1>3, <1>4, <3>1
  <2>. QED BY <2>1
<1>6. tallied = LabelsIn(d) /\ IsFiniteSet(tallied) /\ tallied \subseteq Int
  <2>1. tallied = LabelsIn(d)
    BY <1>1, <1>3 DEF LabelsIn
  <2>. HIDE DEF tallied
  <2>. QED BY <2>1, LabelsAreFinite
<1>7. \A l : {i \in 1..N : l \in d[i].labels} = With(d, l)
  BY <1>1 DEF With
<1>8. \A l \in tallied : count[l] = Support(d, l) /\ count[l] \in Int
  <2>. SUFFICES ASSUME NEW l \in tallied PROVE count[l] = Support(d, l) /\ count[l] \in Int
    OBVIOUS
  <2>1. count[l] = Cardinality(With(d, l))
    BY <1>3, <1>7
  <2>2. IsFiniteSet(With(d, l))
    <3>1. With(d, l) \subseteq DOMAIN d /\ IsFiniteSet(DOMAIN d)
      BY IssuesAreListed, ListPlaces DEF With, Listed
    <3>. QED BY <3>1, FS_Subset
  <2>3. Cardinality(With(d, l)) \in Int
    BY <2>2, FS_CardinalityType
  <2>. QED BY <2>1, <2>3 DEF Support
<1>9. a.summary = RepositorySummary(seen) /\ a.labels = LabelMetrics(seen)
      /\ a.months = TemporalMetrics(seen)
  BY DEF AuditOf, seen
<1>. HIDE DEF a, tallied, count, months
<1>10. /\ Listed(ranked) /\ Len(ranked) = Cardinality(tallied) /\ Len(ranked) \in Nat
      /\ DOMAIN ranked = 1..Len(ranked) /\ ToSet(ranked) = tallied
  BY <1>6, <1>8, RankedAreListed
<1>. HIDE DEF ranked
<1>11. DOMAIN seen.byMonth = months
  BY <1>3
<1>12. Cardinality(months) \in Int /\ Cardinality(months) =< CalendarSpan(seen)
  <2>. DEFINE low == MonthOf[seen.earliest]
              high == MonthOf[seen.latest]
  <2>1. low \in Int /\ high \in Int
    BY <1>3, <1>4
  <2>2. months \subseteq low..high
    <3>. SUFFICES ASSUME NEW i \in 1..N PROVE MonthOf[d[i].created] \in low..high
      BY DEF months
    <3>1. /\ d[i].created \in Times
          /\ seen.earliest =< d[i].created /\ d[i].created =< seen.latest
      BY <1>1, <1>3
    <3>2. /\ MonthOf[d[i].created] \in Int
          /\ low =< MonthOf[d[i].created] /\ MonthOf[d[i].created] =< high
      BY <1>3, <1>4, <3>1
    <3>. HIDE DEF low, high
    <3>. QED BY <2>1, <3>2
  <2>3. CalendarSpan(seen) = high - low + 1
    BY <1>1, <1>3 DEF CalendarSpan
  <2>4. low =< high
    BY <1>3, <1>4, <1>5
  <2>. HIDE DEF low, high
  <2>5. IsFiniteSet(low..high) /\ Cardinality(low..high) = high - low + 1
    BY <2>1, <2>4, FS_Interval
  <2>6. IsFiniteSet(months) /\ Cardinality(months) =< Cardinality(low..high)
    BY <2>2, <2>5, FS_Subset
  <2>. QED BY <2>3, <2>5, <2>6, FS_CardinalityType
<1>13. ConsistentSummary(a.summary)
  <2>1. /\ a.summary.labelled = seen.labelled /\ a.summary.total = N
        /\ a.summary.unlabelled = N - seen.labelled
        /\ a.summary.earliest = seen.earliest /\ a.summary.latest = seen.latest
        /\ a.summary.activeMonths = Cardinality(months) /\ a.summary.span = CalendarSpan(seen)
    BY <1>3, <1>9, <1>11 DEF RepositorySummary
  <2>3. seen.labelled + (N - seen.labelled) = N
    BY <1>1, <1>3
  <2>. QED BY <1>3, <1>4, <1>12, <1>5, <2>1, <2>3 DEF ConsistentSummary
<1>14. /\ a.labels.unique = Cardinality(tallied)
       /\ a.labels.labels = [k \in DOMAIN ranked |->
             [name |-> ranked[k], count |-> count[ranked[k]],
              first |-> seen.tallies[ranked[k]].first, last |-> seen.tallies[ranked[k]].last]]
  <2>1. LabelMetrics(seen)
          = [unique |-> Cardinality(tallied), assignments |-> seen.assignments,
             unlabelled |-> seen.total - seen.labelled,
             labels |-> [k \in DOMAIN ranked |->
                [name |-> ranked[k], count |-> count[ranked[k]],
                 first |-> seen.tallies[ranked[k]].first,
                 last |-> seen.tallies[ranked[k]].last]]]
    BY DEF LabelMetrics, ranked, count, tallied
  <2>. QED BY <1>9, <2>1
<1>15. ConsistentLabels(a.labels)
  <2>. DEFINE labels == a.labels.labels
  <2>1. labels = [k \in 1..Len(ranked) |-> labels[k]]
    BY <1>10, <1>14
  <2>. HIDE DEF labels
  <2>2. Len(labels) = Len(ranked)
    BY <1>10, <2>1, FunctionsAreLists
  <2>. QED BY <1>10, <1>14, <2>2 DEF ConsistentLabels, labels
<1>16. /\ a.months.byMonth = seen.byMonth /\ a.months.span = CalendarSpan(seen)
       /\ a.months.activeMonths = Cardinality(months)
       /\ DOMAIN a.months.labelledByMonth = months
  BY <1>9, <1>11 DEF TemporalMetrics
<1>17. ConsistentMonths(a.months)
  BY <1>11, <1>12, <1>16 DEF ConsistentMonths
<1>18. AuditedLabels(a) = tallied
  BY <1>10, <1>14 DEF AuditedLabels, ToSet
<1>19. AgreesWithAudit(d, a)
  <2>1. a.summary.total = N
    BY <1>3, <1>9 DEF RepositorySummary
  <2>2. ActiveMonths(d) = months
    BY <1>1 DEF ActiveMonths, months
  <2>3. \A m \in months : Copies(m, a.months.byMonth)
                            = Cardinality({i \in DOMAIN d : MonthOf[d[i].created] = m})
    BY <1>1, <1>3, <1>11, <1>16 DEF Copies
  <2>4. AuditedLabels(a) = UNION {d[i].labels : i \in DOMAIN d}
    BY <1>6, <1>18 DEF LabelsIn
  <2>5. \A k \in DOMAIN a.labels.labels :
           a.labels.labels[k].count = Support(d, a.labels.labels[k].name)
    BY <1>8, <1>10, <1>14 DEF ToSet
  <2>. QED BY <1>11, <1>16, <2>1, <2>2, <2>3, <2>4, <2>5 DEF AgreesWithAudit
<1>. QED BY <1>13, <1>15, <1>17, <1>19 DEF ConsistentAudit, a

-----------------------------------------------------------------------------
(* The policy.                                                             *)

\* A part of a finite set, and the pictures of its elements.
LEMMA PartOfFinite ==
    ASSUME NEW S, IsFiniteSet(S), NEW T, T \subseteq S
    PROVE  /\ IsFiniteSet(T) /\ Cardinality(T) \in Nat /\ Cardinality(S) \in Nat
           /\ Cardinality(T) =< Cardinality(S)
  BY FS_Subset, FS_CardinalityType

\* The issues with a label, their months, and those of them that are recent.
LEMMA WithCounts ==
    ASSUME NEW d \in Datasets, NEW l, NEW w
    PROVE  /\ IsFiniteSet(With(d, l)) /\ Support(d, l) \in Nat
           /\ RecentSupport(d, l, w) \in Nat /\ RecentSupport(d, l, w) =< Support(d, l)
           /\ IsFiniteSet(LabelMonths(d, l)) /\ Cardinality(LabelMonths(d, l)) \in Nat
           /\ Cardinality(LabelMonths(d, l)) =< Support(d, l)
           /\ LabelMonths(d, l) \subseteq Int
           /\ IsFiniteSet(ActiveMonths(d)) /\ Cardinality(ActiveMonths(d)) \in Nat
           /\ Cardinality(LabelMonths(d, l)) =< Cardinality(ActiveMonths(d))
<1>1. IsFiniteSet(DOMAIN d) /\ \A i \in DOMAIN d : d[i].created \in Times
  <2>1. IsFiniteSet(DOMAIN d) /\ d \in Seq(Issue)
    BY IssuesAreListed, ListPlaces DEF Listed
  <2>2. \A i \in DOMAIN d : d[i] \in Issue
    BY <2>1
  <2>. QED BY <2>1, <2>2 DEF Issue
<1>2. With(d, l) \subseteq DOMAIN d
  BY DEF With
<1>3. IsFiniteSet(With(d, l))
  BY <1>1, <1>2, PartOfFinite
<1>4. RecentSupport(d, l, w) \in Nat /\ Support(d, l) \in Nat
      /\ RecentSupport(d, l, w) =< Support(d, l)
  <2>. DEFINE recent == {i \in With(d, l) : MonthOf[d[i].created] \in RecentWindow(d, w)}
  <2>1. recent \subseteq With(d, l)
    OBVIOUS
  <2>2. RecentSupport(d, l, w) = Cardinality(recent) /\ Support(d, l) = Cardinality(With(d, l))
    BY DEF RecentSupport, Support
  <2>. HIDE DEF recent
  <2>. QED BY <1>3, <2>1, <2>2, PartOfFinite
<1>5. ASSUME NEW S, S \subseteq DOMAIN d
      PROVE  LET months == {MonthOf[d[i].created] : i \in S}
             IN IsFiniteSet(months) /\ months \subseteq Int /\ Cardinality(months) =< Cardinality(S)
  <2>. DEFINE months == {MonthOf[d[i].created] : i \in S}
              f == [i \in S |-> MonthOf[d[i].created]]
  <2>1. f \in Surjection(S, months)
    <3>1. f \in [S -> months] /\ \A m \in months : \E i \in S : f[i] = m
      OBVIOUS
    <3>. HIDE DEF f, months
    <3>. QED BY <3>1 DEF Surjection
  <2>2. IsFiniteSet(S)
    BY <1>1, <1>5, PartOfFinite
  <2>3. months \subseteq Int
    BY <1>1, <1>5, AuditAssumption
  <2>. HIDE DEF f, months
  <2>4. IsFiniteSet(months) /\ Cardinality(months) =< Cardinality(S)
    BY <2>1, <2>2, FS_Surjection
  <2>. QED BY <2>3, <2>4 DEF months
<1>6. /\ IsFiniteSet(LabelMonths(d, l)) /\ LabelMonths(d, l) \subseteq Int
      /\ Cardinality(LabelMonths(d, l)) =< Support(d, l)
  BY <1>2, <1>5 DEF LabelMonths, Support
<1>7. IsFiniteSet(ActiveMonths(d))
  BY <1>5 DEF ActiveMonths
<1>8. LabelMonths(d, l) \subseteq ActiveMonths(d)
  BY <1>2 DEF LabelMonths, ActiveMonths
<1>. QED BY <1>3, <1>4, <1>6, <1>7, <1>8, PartOfFinite

\* A decision is the configuration's, or that of a label nobody reviewed.
LEMMA DecisionsAreResolved ==
    ASSUME NEW d \in Datasets, NEW c \in PolicyConfigs, NEW l
    PROVE  LET r == DecisionRecord(d, c, l)
           IN /\ r.label = l /\ r.total = Support(d, l)
              /\ r.months = Cardinality(LabelMonths(d, l))
              /\ r.recent = RecentSupport(d, l, c.window)
              /\ r.decision \in {"include", "defer", "exclude"}
              /\ r.source \in {"explicit", "default"}
              /\ r.source = "default" => r.decision = "exclude"
              /\ r.source = "explicit" => /\ l \in DOMAIN c.entries
                                          /\ r.decision = c.entries[l].decision
                                          /\ r.override = c.entries[l].override
              /\ r.first = (CHOOSE m \in LabelMonths(d, l) : \A n \in LabelMonths(d, l) : m =< n)
              /\ r.last = (CHOOSE m \in LabelMonths(d, l) : \A n \in LabelMonths(d, l) : n =< m)
<1>. DEFINE r == DecisionRecord(d, c, l)
            resolved == Resolve(c, l)
            months == LabelMonths(d, l)
<1>1. /\ r.label = l /\ r.total = Support(d, l) /\ r.months = Cardinality(months)
      /\ r.recent = RecentSupport(d, l, c.window)
      /\ r.decision = resolved.decision /\ r.source = resolved.source
      /\ r.override = resolved.override
      /\ r.first = (CHOOSE m \in months : \A n \in months : m =< n)
      /\ r.last = (CHOOSE m \in months : \A n \in months : n =< m)
  BY DEF DecisionRecord
<1>2. l \in DOMAIN c.entries => c.entries[l].decision \in {"include", "defer", "exclude"}
  BY CurationAssumption DEF Entry
<1>3. /\ resolved.decision \in {"include", "defer", "exclude"}
      /\ resolved.source \in {"explicit", "default"}
      /\ resolved.source = "default" => resolved.decision = "exclude"
      /\ resolved.source = "explicit" => /\ l \in DOMAIN c.entries
                                         /\ resolved.decision = c.entries[l].decision
                                         /\ resolved.override = c.entries[l].override
  BY <1>2 DEF Resolve
<1>. HIDE DEF r, resolved, months
<1>. QED BY <1>1, <1>3 DEF r, months

\* A decision agrees with itself.
LEMMA DecisionsAreConsistent ==
    ASSUME NEW d \in Datasets, NEW c \in PolicyConfigs, NEW l
    PROVE  ConsistentRecord(DecisionRecord(d, c, l))
<1>. DEFINE r == DecisionRecord(d, c, l)
            months == LabelMonths(d, l)
<1>1. /\ r.total = Support(d, l) /\ r.months = Cardinality(months)
      /\ r.recent = RecentSupport(d, l, c.window)
      /\ r.source = "default" => r.decision = "exclude"
      /\ r.first = (CHOOSE m \in months : \A n \in months : m =< n)
      /\ r.last = (CHOOSE m \in months : \A n \in months : n =< m)
  BY DecisionsAreResolved
<1>2. /\ IsFiniteSet(With(d, l)) /\ IsFiniteSet(months) /\ months \subseteq Int
      /\ Support(d, l) \in Nat /\ Cardinality(months) \in Nat
      /\ RecentSupport(d, l, c.window) =< Support(d, l)
      /\ Cardinality(months) =< Support(d, l)
  BY WithCounts
<1>3. ASSUME Support(d, l) > 0 PROVE months # {}
  <2>1. With(d, l) # {}
    BY <1>3, FS_EmptySet DEF Support
  <2>. QED BY <2>1 DEF LabelMonths
<1>4. ASSUME months # {} PROVE Cardinality(months) >= 1 /\ r.first =< r.last
  <2>. HIDE DEF months, r
  <2>1. Cardinality(months) # 0
    BY <1>2, <1>4, FS_EmptySet
  <2>2. /\ Min(months) \in months /\ \A n \in months : Min(months) =< n
        /\ Max(months) \in months /\ \A n \in months : n =< Max(months)
    BY <1>2, <1>4, Extremes
  <2>3. r.first \in months /\ \A n \in months : r.first =< n
    BY <1>1, <2>2
  <2>4. r.last \in months /\ \A n \in months : n =< r.last
    BY <1>1, <2>2
  <2>5. r.first =< r.last
    BY <2>3, <2>4
  <2>. QED BY <1>2, <2>1, <2>5
<1>. HIDE DEF months, r
<1>5. ConsistentRecord(r)
  BY <1>1, <1>2, <1>3, <1>4 DEF ConsistentRecord
<1>. QED BY <1>5 DEF r

\* The parts of a finite set add up.
LEMMA PartsAddUp ==
    ASSUME NEW S, IsFiniteSet(S), NEW A, NEW B, A \cup B = S, A \cap B = {}
    PROVE  /\ Cardinality(A) + Cardinality(B) = Cardinality(S)
           /\ Cardinality(A) \in Nat /\ Cardinality(B) \in Nat
<1>1. A \subseteq S /\ B \subseteq S
  OBVIOUS
<1>2. IsFiniteSet(A) /\ IsFiniteSet(B) /\ Cardinality(A) \in Nat /\ Cardinality(B) \in Nat
  BY <1>1, PartOfFinite
<1>3. Cardinality(A \cup B) = Cardinality(A) + Cardinality(B) - Cardinality(A \cap B)
  BY <1>2, FS_Union
<1>4. Cardinality(A \cap B) = 0
  BY FS_EmptySet
<1>5. Cardinality(A \cup B) = Cardinality(S)
  OBVIOUS
<1>. QED BY <1>2, <1>3, <1>4, <1>5

\* A list in which nothing is twice has as many elements as places.
LEMMA DistinctCount ==
    ASSUME NEW s, Listed(s), \A j, k \in DOMAIN s : j # k => s[j] # s[k]
    PROVE  Cardinality(ToSet(s)) = Len(s)
<1>1. Len(s) \in Nat /\ DOMAIN s = 1..Len(s)
  BY ListPlaces
<1>2. PICK T : s \in Seq(T)
  BY DEF Listed
<1>3. s \in [1..Len(s) -> ToSet(s)] /\ \A x \in ToSet(s) : \E k \in 1..Len(s) : s[k] = x
  BY <1>1, <1>2 DEF ToSet
<1>4. s \in Bijection(1..Len(s), ToSet(s))
  BY <1>1, <1>3 DEF Bijection, Injection, Surjection, IsInjective
<1>5. IsFiniteSet(1..Len(s)) /\ Cardinality(1..Len(s)) = Len(s)
  <2>1. Len(s) \in Int /\ 1 \in Int /\ Len(s) >= 0
    BY <1>1
  <2>2. /\ IsFiniteSet(1..Len(s))
        /\ Cardinality(1..Len(s)) = IF 1 > Len(s) THEN 0 ELSE Len(s) - 1 + 1
    BY <2>1, FS_Interval
  <2>. QED BY <2>1, <2>2
<1>. QED BY <1>4, <1>5, FS_Bijection DEF ExistsBijection

\* Numbers in their order, each of them once.
LEMMA AscendingAreListed ==
    ASSUME NEW S, IsFiniteSet(S), S \subseteq Int
    PROVE  LET s == Ascending(S)
           IN /\ Listed(s) /\ Len(s) = Cardinality(S) /\ DOMAIN s = 1..Cardinality(S)
              /\ Cardinality(S) \in Nat /\ ToSet(s) = S /\ \A k \in DOMAIN s : s[k] \in S
              /\ \A j, k \in DOMAIN s : j # k => s[j] # s[k]
<1>. DEFINE b == {p \in S \X S : p[1] < p[2]}
            s == SortedBy(S, b)
<1>1. \A x, y \in S : <<x, y>> \in b <=> x < y
  OBVIOUS
<1>. HIDE DEF b
<1>2. Orders(b, S)
  BY <1>1 DEF Orders
<1>3. /\ s \in Seq(S) /\ Len(s) = Cardinality(S) /\ Cardinality(S) \in Nat
      /\ DOMAIN s = 1..Cardinality(S)
      /\ \A x \in S : \E k \in 1..Cardinality(S) : s[k] = x
      /\ \A k \in 1..Cardinality(S) : s[k] \in S
      /\ \A j, k \in 1..Cardinality(S) : <<s[j], s[k]>> \in b <=> j < k
  BY <1>2, Sorting
<1>4. Ascending(S) = s
  BY DEF Ascending, b
<1>. HIDE DEF s
<1>5. ASSUME NEW j \in DOMAIN s, NEW k \in DOMAIN s, j # k PROVE s[j] # s[k]
  <2>1. j < k \/ k < j
    BY <1>3, <1>5
  <2>2. <<s[j], s[k]>> \in b \/ <<s[k], s[j]>> \in b
    BY <1>3, <2>1
  <2>. QED BY <1>2, <1>3, <2>2 DEF Orders
<1>6. ToSet(s) = S
  BY <1>3 DEF ToSet
<1>. QED BY <1>3, <1>4, <1>5, <1>6 DEF Listed

\* The labels of the decisions to include, each of them once.
LEMMA IncludedAreDistinct ==
    ASSUME NEW decisions, Listed(decisions), NEW labels, labels = LabelsOf(decisions),
           \A j, k \in DOMAIN decisions : j # k => labels[j] # labels[k]
    PROVE  LET included == LabelsOf(Included(decisions))
               chosen == {k \in DOMAIN decisions : decisions[k].decision = "include"}
           IN /\ Len(included) = Cardinality(chosen)
              /\ Cardinality(ToSet(included)) = Len(included)
<1>. DEFINE chosen == {k \in DOMAIN decisions : decisions[k].decision = "include"}
            places == Ascending(chosen)
            included == LabelsOf(Included(decisions))
<1>1. IsFiniteSet(DOMAIN decisions) /\ DOMAIN decisions \subseteq Int
  BY ListPlaces
<1>2. chosen \subseteq DOMAIN decisions
  OBVIOUS
<1>3. IsFiniteSet(chosen) /\ chosen \subseteq Int
  BY <1>1, <1>2, PartOfFinite
<1>. HIDE DEF chosen
<1>4. /\ DOMAIN places = 1..Cardinality(chosen) /\ Cardinality(chosen) \in Nat
      /\ \A k \in DOMAIN places : places[k] \in chosen
      /\ \A j, k \in DOMAIN places : j # k => places[j] # places[k]
  BY <1>3, AscendingAreListed
<1>5. Included(decisions) = [n \in DOMAIN places |-> decisions[places[n]]]
  BY DEF Included, chosen
<1>6. labels = [k \in DOMAIN decisions |-> decisions[k].label]
  BY DEF LabelsOf
<1>. HIDE DEF places
<1>7. included = [n \in 1..Cardinality(chosen) |-> labels[places[n]]]
  <2>1. included = [n \in DOMAIN places |-> decisions[places[n]].label]
    BY <1>5 DEF LabelsOf
  <2>2. \A n \in DOMAIN places : labels[places[n]] = decisions[places[n]].label
    BY <1>2, <1>4, <1>6
  <2>. HIDE DEF included
  <2>. QED BY <1>4, <2>1, <2>2
<1>. HIDE DEF included
<1>8. included = [n \in 1..Cardinality(chosen) |-> included[n]]
  BY <1>7
<1>9. Listed(included) /\ Len(included) = Cardinality(chosen)
      /\ DOMAIN included = 1..Cardinality(chosen)
  BY <1>4, <1>8, FunctionsAreLists
<1>10. \A j, k \in DOMAIN included : j # k => included[j] # included[k]
  BY <1>2, <1>4, <1>7, <1>9
<1>11. Cardinality(ToSet(included)) = Len(included)
  BY <1>9, <1>10, DistinctCount
<1>. QED BY <1>9, <1>11 DEF included, chosen

\* The decisions of a kind, and those from a source.
Among(decisions, decision) == {k \in DOMAIN decisions : decisions[k].decision = decision}
Sourced(decisions, source) == {k \in DOMAIN decisions : decisions[k].source = source}

\* What a policy's coverage counts among its decisions.
LEMMA CoverageCounts ==
    ASSUME NEW d, NEW decisions
    PROVE  LET cov == Coverage(d, decisions)
           IN /\ cov.total = Len(d) /\ cov.months = Cardinality(ActiveMonths(d))
              /\ cov.audited = Len(decisions)
              /\ cov.included = LabelsOf(Included(decisions))
              /\ cov.deferred = Cardinality(Among(decisions, "defer"))
              /\ cov.excluded = Cardinality(Among(decisions, "exclude"))
              /\ cov.explicit = Cardinality(Sourced(decisions, "explicit"))
              /\ cov.default = Cardinality(Sourced(decisions, "default"))
              /\ \E n : cov.withTarget = Cardinality(n) /\ n \subseteq DOMAIN d
                        /\ cov.withoutTarget = Len(d) - Cardinality(n)
<1>. DEFINE included == LabelsOf(Included(decisions))
            targets == [i \in DOMAIN d |-> d[i].labels \cap ToSet(included)]
            covered == {i \in DOMAIN d : targets[i] # {}}
            cov == Coverage(d, decisions)
<1>1. /\ cov.total = Len(d) /\ cov.months = Cardinality(ActiveMonths(d))
      /\ cov.audited = Len(decisions) /\ cov.included = included
      /\ cov.withTarget = Cardinality(covered)
      /\ cov.withoutTarget = Len(d) - Cardinality(covered)
  BY DEF Coverage
<1>2. /\ cov.deferred = Cardinality(Among(decisions, "defer"))
      /\ cov.excluded = Cardinality(Among(decisions, "exclude"))
      /\ cov.explicit = Cardinality(Sourced(decisions, "explicit"))
      /\ cov.default = Cardinality(Sourced(decisions, "default"))
  BY DEF Coverage, CountOf, Among, Sourced
<1>3. covered \subseteq DOMAIN d
  OBVIOUS
<1>. HIDE DEF included, covered, cov
<1>. QED BY <1>1, <1>2, <1>3 DEF cov, included

\* A policy agrees with itself.
LEMMA PolicyIsConsistent ==
    ASSUME NEW d \in Datasets, d # <<>>, NEW c \in PolicyConfigs,
           NEW a, AgreesWithAudit(d, a),
           \A k \in DOMAIN Decisions(d, c, a) : Selectable(Decisions(d, c, a)[k], c)
    PROVE  ConsistentPolicy(PolicyOf(d, c, a))
<1>. DEFINE labels == AuditedLabels(a)
            count == [l \in labels |-> Support(d, l)]
            ranked == RankedBy(count, labels)
            decisions == Decisions(d, c, a)
            p == PolicyOf(d, c, a)
            cov == Coverage(d, decisions)
            criteria == [f \in DOMAIN c \ {"entries"} |-> c[f]]
<1>1. IsFiniteSet(labels) /\ labels \subseteq Int
  <2>1. labels = LabelsIn(d)
    BY DEF AgreesWithAudit, LabelsIn
  <2>. HIDE DEF labels
  <2>. QED BY <2>1, LabelsAreFinite
<1>2. decisions = [k \in DOMAIN ranked |-> DecisionRecord(d, c, ranked[k])]
  BY DEF Decisions
<1>3. p.decisions = decisions /\ p.coverage = cov /\ p.criteria = criteria
  BY DEF PolicyOf
<1>4. \A l \in labels : count[l] = Support(d, l) /\ count[l] \in Int
  <2>. SUFFICES ASSUME NEW l \in labels PROVE count[l] = Support(d, l) /\ count[l] \in Int
    OBVIOUS
  <2>1. Support(d, l) \in Nat
    BY WithCounts
  <2>. QED BY <2>1
<1>. HIDE DEF labels
<1>5. count = [l \in labels |-> Support(d, l)]
  OBVIOUS
<1>. HIDE DEF count, decisions, p
<1>6. /\ Listed(ranked) /\ Len(ranked) \in Nat /\ DOMAIN ranked = 1..Len(ranked)
      /\ ToSet(ranked) = labels
      /\ \A j, k \in DOMAIN ranked : j # k => ranked[j] # ranked[k]
  BY <1>1, <1>4, RankedAreListed
<1>7. ranked = RankedBy(count, labels)
  OBVIOUS
<1>. HIDE DEF ranked
<1>8. /\ Listed(decisions) /\ Len(decisions) = Len(ranked) /\ DOMAIN decisions = DOMAIN ranked
      /\ \A k \in DOMAIN ranked : decisions[k] = DecisionRecord(d, c, ranked[k])
  <2>1. decisions = [k \in 1..Len(ranked) |-> decisions[k]]
    BY <1>2, <1>6
  <2>. QED BY <1>2, <1>6, <2>1, FunctionsAreLists
<1>9. LabelsOf(decisions) = ranked
  <2>1. LabelsOf(decisions) = [k \in DOMAIN ranked |-> decisions[k].label]
    BY <1>8 DEF LabelsOf
  <2>2. \A k \in DOMAIN ranked : decisions[k].label = ranked[k]
    BY <1>8, DecisionsAreResolved
  <2>3. PICK T : ranked \in Seq(T)
    BY <1>6 DEF Listed
  <2>4. ranked = [k \in DOMAIN ranked |-> ranked[k]]
    BY <2>3
  <2>. QED BY <2>1, <2>2, <2>4
<1>10. ASSUME NEW k \in DOMAIN decisions
       PROVE  /\ decisions[k].decision \in {"include", "defer", "exclude"}
              /\ decisions[k].source \in {"explicit", "default"}
              /\ ConsistentRecord(decisions[k])
              /\ decisions[k].total = Support(d, ranked[k])
              /\ decisions[k].months =< cov.months
  <2>1. decisions[k] = DecisionRecord(d, c, ranked[k])
    BY <1>8
  <2>2. cov.months = Cardinality(ActiveMonths(d))
    BY CoverageCounts
  <2>. HIDE DEF cov
  <2>. QED BY <2>1, <2>2, DecisionsAreResolved, DecisionsAreConsistent, WithCounts
<1>11. \A k \in DOMAIN decisions : Selectable(decisions[k], criteria)
  <2>1. criteria.minTotal = c.minTotal /\ criteria.minMonths = c.minMonths
        /\ criteria.minRecent = c.minRecent
    BY CurationAssumption
  <2>. HIDE DEF criteria
  <2>. QED BY <2>1 DEF Selectable, MeetsCriteria, decisions
<1>12. /\ IsFiniteSet(DOMAIN decisions) /\ Cardinality(DOMAIN decisions) = Len(decisions)
  <2>1. Len(ranked) \in Int /\ 1 \in Int /\ Len(ranked) >= 0
    BY <1>6
  <2>2. /\ IsFiniteSet(1..Len(ranked))
        /\ Cardinality(1..Len(ranked)) = IF 1 > Len(ranked) THEN 0 ELSE Len(ranked) - 1 + 1
    BY <2>1, FS_Interval
  <2>. QED BY <1>6, <1>8, <2>1, <2>2
<1>13. /\ Len(cov.included) = Cardinality(Among(decisions, "include"))
       /\ Cardinality(ToSet(cov.included)) = Len(cov.included)
  <2>1. \A j, k \in DOMAIN decisions : j # k => ranked[j] # ranked[k]
    BY <1>6, <1>8
  <2>2. cov.included = LabelsOf(Included(decisions))
    BY CoverageCounts
  <2>. QED BY <1>8, <1>9, <2>1, <2>2, IncludedAreDistinct DEF Among
<1>14. /\ cov.deferred = Cardinality(Among(decisions, "defer"))
       /\ cov.excluded = Cardinality(Among(decisions, "exclude"))
       /\ cov.explicit = Cardinality(Sourced(decisions, "explicit"))
       /\ cov.default = Cardinality(Sourced(decisions, "default"))
       /\ cov.audited = Len(decisions) /\ cov.included = LabelsOf(Included(decisions))
       /\ cov.months = Cardinality(ActiveMonths(d)) /\ cov.total = Len(d)
       /\ \E n : cov.withTarget = Cardinality(n) /\ n \subseteq DOMAIN d
                 /\ cov.withoutTarget = Len(d) - Cardinality(n)
  BY CoverageCounts
<1>15. Len(cov.included) + cov.deferred + cov.excluded = cov.audited
  <2>. DEFINE I == Among(decisions, "include")
              D == Among(decisions, "defer")
              E == Among(decisions, "exclude")
  <2>1. /\ I \cup (D \cup E) = DOMAIN decisions /\ I \cap (D \cup E) = {} /\ D \cap E = {}
    BY <1>10 DEF Among
  <2>. HIDE DEF I, D, E
  <2>2. /\ Cardinality(I) + Cardinality(D \cup E) = Cardinality(DOMAIN decisions)
        /\ Cardinality(I) \in Nat
    BY <1>12, <2>1, PartsAddUp
  <2>3. IsFiniteSet(D \cup E)
    BY <1>12, <2>1, PartOfFinite
  <2>4. /\ Cardinality(D) + Cardinality(E) = Cardinality(D \cup E)
        /\ Cardinality(D) \in Nat /\ Cardinality(E) \in Nat
    BY <2>1, <2>3, PartsAddUp
  <2>5. Cardinality(I) + Cardinality(D) + Cardinality(E) = Cardinality(DOMAIN decisions)
    BY <2>2, <2>4
  <2>. QED BY <1>12, <1>13, <1>14, <2>5 DEF I, D, E
<1>16. cov.explicit + cov.default = cov.audited
  <2>. DEFINE X == Sourced(decisions, "explicit")
              Y == Sourced(decisions, "default")
  <2>1. X \cup Y = DOMAIN decisions /\ X \cap Y = {}
    BY <1>10 DEF Sourced
  <2>. HIDE DEF X, Y
  <2>2. Cardinality(X) + Cardinality(Y) = Cardinality(DOMAIN decisions)
    BY <1>12, <2>1, PartsAddUp
  <2>. QED BY <1>12, <1>14, <2>2 DEF X, Y
<1>17. cov.months >= 1
  <2>1. ActiveMonths(d) # {}
    <3>1. 1 \in DOMAIN d
      BY IssuesAreListed
    <3>. QED BY <3>1 DEF ActiveMonths
  <2>2. Cardinality(ActiveMonths(d)) # 0 /\ Cardinality(ActiveMonths(d)) \in Nat
    BY <2>1, WithCounts, FS_EmptySet
  <2>. QED BY <1>14, <2>2
<1>18. cov.withTarget + cov.withoutTarget = cov.total
  <2>1. PICK n : cov.withTarget = Cardinality(n) /\ n \subseteq DOMAIN d
                 /\ cov.withoutTarget = Len(d) - Cardinality(n)
    BY <1>14
  <2>2. IsFiniteSet(DOMAIN d) /\ Len(d) \in Nat
    BY IssuesAreListed, ListPlaces DEF Listed
  <2>3. Cardinality(n) \in Nat
    BY <2>1, <2>2, PartOfFinite
  <2>4. \A x, y \in Int : x + (y - x) = y
    OBVIOUS
  <2>. HIDE DEF cov
  <2>. QED BY <1>14, <2>1, <2>2, <2>3, <2>4
<1>. HIDE DEF cov
<1>19. ConsistentCoverage(cov)
  BY <1>13, <1>15, <1>16, <1>17, <1>18 DEF ConsistentCoverage
<1>20. Cardinality(ToSet(ranked)) = Len(decisions)
  BY <1>6, <1>8, DistinctCount
<1>21. ranked = RankedBy([l \in ToSet(ranked) |->
                             (CHOOSE r \in ToSet(decisions) : r.label = l).total], ToSet(ranked))
  <2>1. ASSUME NEW l \in labels
        PROVE  (CHOOSE r \in ToSet(decisions) : r.label = l).total = Support(d, l)
    <3>. DEFINE r == CHOOSE r \in ToSet(decisions) : r.label = l
    <3>1. PICK k \in DOMAIN ranked : ranked[k] = l
      BY <1>6 DEF ToSet
    <3>2. decisions[k] \in ToSet(decisions) /\ decisions[k].label = l
      BY <1>8, <3>1, DecisionsAreResolved DEF ToSet
    <3>3. r \in ToSet(decisions) /\ r.label = l
      BY <3>2
    <3>. HIDE DEF r
    <3>4. PICK j \in DOMAIN decisions : r = decisions[j]
      BY <3>3 DEF ToSet
    <3>5. r.label = ranked[j] /\ r.total = Support(d, ranked[j])
      BY <1>8, <3>4, DecisionsAreResolved
    <3>6. r.total = Support(d, l)
      BY <3>3, <3>5
    <3>. QED BY <3>6 DEF r
  <2>2. count = [l \in labels |-> (CHOOSE r \in ToSet(decisions) : r.label = l).total]
    BY <1>5, <2>1
  <2>. QED BY <1>6, <1>7, <2>2
<1>22. /\ cov.deferred = CountOf(decisions, LAMBDA r : r.decision = "defer")
       /\ cov.excluded = CountOf(decisions, LAMBDA r : r.decision = "exclude")
       /\ cov.explicit = CountOf(decisions, LAMBDA r : r.source = "explicit")
       /\ cov.default = CountOf(decisions, LAMBDA r : r.source = "default")
  BY <1>14 DEF CountOf, Among, Sourced
<1>. HIDE DEF criteria
<1>23. ConsistentPolicy(p)
  BY <1>3, <1>8, <1>9, <1>10, <1>11, <1>14, <1>19, <1>20, <1>21, <1>22 DEF ConsistentPolicy
<1>. QED BY <1>23 DEF p

-----------------------------------------------------------------------------
(* What is refused.                                                        *)

\* A target that misses a criterion, and nobody says why it is one all the same.
MissesCriteria(d, c) ==
    \E l \in DOMAIN c.entries :
        /\ c.entries[l].decision = "include" /\ ~c.entries[l].override
        /\ \/ Support(d, l) < c.minTotal
           \/ Cardinality(LabelMonths(d, l)) < c.minMonths
           \/ RecentSupport(d, l, c.window) < c.minRecent

\* Only such a target lets a policy be refused.
LEMMA PolicyRefusalIsExplained ==
    ASSUME NEW d \in Datasets, d # <<>>, NEW c \in PolicyConfigs,
           LET built == PolicyOf(d, c, AuditOf(d))
           IN ~(/\ AgreesWithAudit(d, AuditOf(d))
                /\ \A k \in DOMAIN built.decisions : Selectable(built.decisions[k], c)
                /\ ConsistentPolicy(built))
    PROVE  MissesCriteria(d, c)
<1>. DEFINE a == AuditOf(d)
            decisions == Decisions(d, c, a)
<1>1. AgreesWithAudit(d, a)
  BY AuditCounts
<1>2. PolicyOf(d, c, a).decisions = decisions
  BY DEF PolicyOf
<1>. HIDE DEF a, decisions
<1>3. PICK k \in DOMAIN decisions : ~Selectable(decisions[k], c)
  BY <1>1, <1>2, PolicyIsConsistent DEF a, decisions
<1>4. PICK l : decisions[k] = DecisionRecord(d, c, l)
  BY DEF decisions, Decisions
<1>5. /\ decisions[k].decision = "include" /\ ~decisions[k].override
      /\ ~MeetsCriteria(decisions[k], c)
  BY <1>3 DEF Selectable
<1>6. /\ decisions[k].total = Support(d, l)
      /\ decisions[k].months = Cardinality(LabelMonths(d, l))
      /\ decisions[k].recent = RecentSupport(d, l, c.window)
      /\ l \in DOMAIN c.entries /\ c.entries[l].decision = "include" /\ ~c.entries[l].override
  BY <1>4, <1>5, DecisionsAreResolved
<1>7. /\ Support(d, l) \in Nat /\ Cardinality(LabelMonths(d, l)) \in Nat
      /\ RecentSupport(d, l, c.window) \in Nat
      /\ c.minTotal \in Nat /\ c.minMonths \in Nat /\ c.minRecent \in Nat
  BY WithCounts, CurationAssumption
<1>8. \/ Support(d, l) < c.minTotal
      \/ Cardinality(LabelMonths(d, l)) < c.minMonths
      \/ RecentSupport(d, l, c.window) < c.minRecent
  BY <1>5, <1>6, <1>7 DEF MeetsCriteria
<1>. QED BY <1>6, <1>8 DEF MissesCriteria

\* The records of a dataset, as they are built.
LEMMA BuiltRecords ==
    ASSUME NEW d \in Datasets, NEW canonical, NEW c
    PROVE  LET records == TransformIssues(d, canonical, c)
           IN /\ Stored(d, records, canonical, c) /\ Len(records) = Len(d)
              /\ \A j, k \in DOMAIN records : j # k => records[j].id # records[k].id
              /\ \A k \in DOMAIN records : k > 1 => ~OrderedBefore(records[k], records[k - 1])
<1>. DEFINE S == {RecordOf(d, id, canonical, c) : id \in DOMAIN d}
            b == RecordOrder(S)
            s == SortedBy(S, b)
            f == [id \in DOMAIN d |-> RecordOf(d, id, canonical, c)]
<1>1. IsFiniteSet(S) /\ Orders(b, S)
  BY RecordsAreOrdered
<1>2. \A id \in DOMAIN d : RecordOf(d, id, canonical, c).id = id
  BY DEF RecordOf
<1>3. f \in Bijection(DOMAIN d, S)
  <2>1. f \in [DOMAIN d -> S] /\ \A r \in S : \E id \in DOMAIN d : f[id] = r
    OBVIOUS
  <2>2. \A i, j \in DOMAIN d : f[i] = f[j] => i = j
    BY <1>2
  <2>. HIDE DEF f, S
  <2>. QED BY <2>1, <2>2 DEF Bijection, Injection, Surjection, IsInjective
<1>4. \A r \in S : r.id \in DOMAIN d /\ r = RecordOf(d, r.id, canonical, c)
  BY <1>2
<1>5. \A r, t \in S : <<r, t>> \in b <=> OrderedBefore(r, t)
  BY DEF RecordOrder
<1>6. TransformIssues(d, canonical, c) = s
  BY DEF TransformIssues
<1>. HIDE DEF S, f, b
<1>7. Cardinality(S) = Len(d)
  <2>1. Len(d) \in Int /\ 1 \in Int /\ Len(d) >= 0 /\ DOMAIN d = 1..Len(d)
    BY IssuesAreListed
  <2>2. /\ IsFiniteSet(1..Len(d))
        /\ Cardinality(1..Len(d)) = IF 1 > Len(d) THEN 0 ELSE Len(d) - 1 + 1
    BY <2>1, FS_Interval
  <2>3. IsFiniteSet(DOMAIN d) /\ Cardinality(DOMAIN d) = Len(d)
    BY <2>1, <2>2
  <2>. QED BY <1>3, <2>3, FS_Bijection DEF ExistsBijection
<1>8. /\ s \in Seq(S) /\ Len(s) = Len(d) /\ DOMAIN s = 1..Len(d) /\ Len(d) \in Nat
      /\ \A k \in 1..Len(d) : s[k] \in S
      /\ \A j, k \in 1..Len(d) : <<s[j], s[k]>> \in b <=> j < k
  BY <1>1, <1>7, Sorting
<1>. HIDE DEF s
<1>9. Stored(d, s, canonical, c)
  BY <1>4, <1>8 DEF Stored, Listed
<1>10. ASSUME NEW j \in DOMAIN s, NEW k \in DOMAIN s, j # k PROVE s[j].id # s[k].id
  <2>1. j < k \/ k < j
    BY <1>8, <1>10
  <2>2. <<s[j], s[k]>> \in b \/ <<s[k], s[j]>> \in b
    BY <1>8, <2>1
  <2>3. s[j] # s[k]
    BY <1>1, <1>8, <2>2 DEF Orders
  <2>. QED BY <1>4, <1>8, <2>3
<1>11. ASSUME NEW k \in DOMAIN s, k > 1 PROVE ~OrderedBefore(s[k], s[k - 1])
  <2>1. k - 1 \in 1..Len(d) /\ ~(k < k - 1)
    BY <1>8, <1>11
  <2>2. <<s[k], s[k - 1]>> \notin b
    BY <1>8, <2>1
  <2>. QED BY <1>5, <1>8, <2>1, <2>2
<1>. QED BY <1>6, <1>8, <1>9, <1>10, <1>11

\* The records are read as they were built.
LEMMA BuiltAreConsistent ==
    ASSUME NEW d \in Datasets, NEW c \in SplitConfigs, NEW canonical, Listed(canonical),
           NEW a, a.records = TransformIssues(d, canonical, c), a.labels = canonical,
           a.targets = Len(canonical), a.written = Len(a.records),
           a.validation = c.validation, a.test = c.test
    PROVE  ConsistentRecords(a)
<1>. DEFINE records == a.records
<1>1. /\ Stored(d, records, canonical, c)
      /\ \A j, k \in DOMAIN records : j # k => records[j].id # records[k].id
      /\ \A k \in DOMAIN records : k > 1 => ~OrderedBefore(records[k], records[k - 1])
  BY BuiltRecords
<1>2. ASSUME NEW k \in DOMAIN records
      PROVE  /\ Len(records[k].target) = a.targets
             /\ records[k].selected = SelectedLabels(
                    {canonical[p] : p \in {q \in DOMAIN canonical :
                                                records[k].target[q] = 1}}, canonical)
             /\ records[k].split = AssignSplit(records[k].created, a)
  <2>. DEFINE id == records[k].id
              labels == d[id].labels
              chosen == {canonical[p] : p \in {q \in DOMAIN canonical : records[k].target[q] = 1}}
  <2>1. id \in DOMAIN d /\ records[k] = RecordOf(d, id, canonical, c)
    BY <1>1 DEF Stored
  <2>2. /\ RecordOf(d, id, canonical, c).target = TargetVector(labels, canonical)
        /\ RecordOf(d, id, canonical, c).selected = SelectedLabels(labels, canonical)
        /\ RecordOf(d, id, canonical, c).split = AssignSplit(d[id].created, c)
        /\ RecordOf(d, id, canonical, c).created = d[id].created
    BY DEF RecordOf
  <2>3. /\ records[k].target = TargetVector(labels, canonical)
        /\ records[k].selected = SelectedLabels(labels, canonical)
        /\ records[k].split = AssignSplit(records[k].created, c)
    <3>. HIDE DEF records, id, labels
    <3>. QED BY <2>1, <2>2
  <2>. HIDE DEF records, id, labels
  <2>4. \A q \in DOMAIN canonical : records[k].target[q] = 1 <=> canonical[q] \in labels
    BY <2>3 DEF TargetVector
  <2>5. {q \in DOMAIN canonical : canonical[q] \in chosen}
          = {q \in DOMAIN canonical : canonical[q] \in labels}
    BY <2>4
  <2>6. SelectedLabels(chosen, canonical) = SelectedLabels(labels, canonical)
    <3>. DEFINE of(S) == {q \in DOMAIN canonical : canonical[q] \in S}
                last(S) == CHOOSE f : f = [n \in 0..Len(canonical) |->
                               IF n = 0 THEN <<>>
                               ELSE IF n \in S THEN Append(f[n - 1], canonical[n]) ELSE f[n - 1]]
    <3>1. \A S : SelectedLabels(S, canonical) = last(of(S))[Len(canonical)]
      BY Zenon DEF SelectedLabels
    <3>2. of(chosen) = of(labels)
      BY <2>5
    <3>. HIDE DEF last, of
    <3>. QED BY <3>1, <3>2
  <2>7. Len(records[k].target) = a.targets
    <3>1. /\ Len(canonical) \in Nat /\ DOMAIN canonical = 1..Len(canonical)
      BY ListPlaces
    <3>. DEFINE t == records[k].target
    <3>2. t = [q \in 1..Len(canonical) |-> t[q]]
      BY <2>3, <3>1 DEF TargetVector
    <3>. HIDE DEF t
    <3>3. Len(t) = Len(canonical)
      BY <3>1, <3>2, FunctionsAreLists
    <3>. QED BY <3>3 DEF t
  <2>8. AssignSplit(records[k].created, c) = AssignSplit(records[k].created, a)
    BY DEF AssignSplit
  <2>. QED BY <2>3, <2>6, <2>7, <2>8
<1>3. \A k \in DOMAIN records : records[k].selected = SelectedLabels(
         {a.labels[p] : p \in {q \in DOMAIN a.labels : records[k].target[q] = 1}}, a.labels)
  BY <1>2
<1>4. Len(records) = a.written
  OBVIOUS
<1>. HIDE DEF records
<1>5. /\ \A k \in DOMAIN records : /\ Len(records[k].target) = a.targets
                                  /\ records[k].split = AssignSplit(records[k].created, a)
      /\ \A j, k \in DOMAIN records : j # k => records[j].id # records[k].id
      /\ \A k \in DOMAIN records : k > 1 => ~OrderedBefore(records[k], records[k - 1])
  BY <1>1, <1>2
<1>. QED BY <1>3, <1>4, <1>5, Zenon DEF ConsistentRecords, records

\* The places of a split to warn of, and the warnings.
Low(positives, c, name) ==
    {place \in DOMAIN positives[name] :
        /\ positives[name][place] >= c.minimum[name]
        /\ 0 < positives[name][place] /\ positives[name][place] < c.threshold}
WarningsIn(positives, c, name) ==
    [n \in 1..Cardinality(Low(positives, c, name)) |->
        [split |-> name, place |-> Ascending(Low(positives, c, name))[n],
         threshold |-> c.threshold,
         count |-> positives[name][Ascending(Low(positives, c, name))[n]]]]

\* Two lists after each other are empty if both are; every place is one of theirs.
LEMMA BothLists ==
    ASSUME NEW s, Listed(s), NEW t, Listed(t)
    PROVE  /\ s \o t = <<>> <=> Len(s) = 0 /\ Len(t) = 0
           /\ s \o t # <<>> => \/ \E k \in DOMAIN s : (s \o t)[1] = s[k]
                               \/ \E k \in DOMAIN t : (s \o t)[1] = t[k]
<1>1. PICK S : s \in Seq(S)
  BY DEF Listed
<1>2. PICK T : t \in Seq(T)
  BY DEF Listed
<1>. DEFINE U == S \cup T
<1>3. s \in Seq(U) /\ t \in Seq(U)
  BY <1>1, <1>2
<1>. HIDE DEF U
<1>4. /\ Len(s) \in Nat /\ Len(t) \in Nat /\ DOMAIN s = 1..Len(s) /\ DOMAIN t = 1..Len(t)
      /\ s \o t \in Seq(U) /\ Len(s \o t) = Len(s) + Len(t)
      /\ \A k \in 1..(Len(s) + Len(t)) :
            (s \o t)[k] = IF k =< Len(s) THEN s[k] ELSE t[k - Len(s)]
  BY <1>3
<1>5. s \o t = <<>> <=> Len(s \o t) = 0
  BY <1>4
<1>6. s \o t = <<>> <=> Len(s) = 0 /\ Len(t) = 0
  BY <1>4, <1>5
<1>7. CASE Len(s) # 0
  <2>1. 1 \in DOMAIN s /\ (s \o t)[1] = s[1]
    BY <1>4, <1>7
  <2>. QED BY <1>6, <2>1
<1>8. CASE Len(s) = 0 /\ Len(t) # 0
  <2>1. 1 \in DOMAIN t /\ (s \o t)[1] = t[1]
    BY <1>4, <1>8
  <2>. QED BY <1>6, <2>1
<1>. QED BY <1>6, <1>7, <1>8

\* The warnings that the validator expects are those of the builder, unless there are none
\* for it to read the threshold from and it falls back to a higher one.
LEMMA WarningsAgree ==
    ASSUME NEW targets \in Nat, NEW positives,
           \A name \in SplitNames : positives[name] \in [1..targets -> Nat],
           NEW c \in SplitConfigs, HardErrors(positives, c) = {},
           NEW m, m.minimum = [name \in SplitNames |-> 1],
           m.threshold = IF SupportWarnings(positives, c) = <<>> THEN FallbackThreshold
                         ELSE SupportWarnings(positives, c)[1].threshold
    PROVE  \/ SupportWarnings(positives, c) = SupportWarnings(positives, m)
           \/ c.threshold < FallbackThreshold /\ SupportWarnings(positives, c) = <<>>
<1>1. /\ \A x : SupportWarnings(positives, x)
                  = WarningsIn(positives, x, "validation") \o WarningsIn(positives, x, "test")
  BY DEF SupportWarnings, WarningsIn, Low
<1>2. c.threshold \in Int /\ FallbackThreshold \in Int
      /\ \A name \in SplitNames : c.minimum[name] \in Nat \ {0}
  BY CurationAssumption
<1>3. {"validation", "test", "train"} \subseteq SplitNames
  BY SplitPlaces
<1>4. ASSUME NEW name \in SplitNames
      PROVE  /\ Low(positives, c, name)
                  = {place \in 1..targets : 0 < positives[name][place]
                                            /\ positives[name][place] < c.threshold}
             /\ Low(positives, m, name)
                  = {place \in 1..targets : 0 < positives[name][place]
                                            /\ positives[name][place] < m.threshold}
  <2>1. DOMAIN positives[name] = 1..targets /\ DOMAIN positives["train"] = 1..targets
        /\ \A place \in 1..targets : positives[name][place] \in Nat
    BY <1>3
  <2>2. ASSUME NEW place \in 1..targets PROVE positives[name][place] >= c.minimum[name]
    <3>. DEFINE at == <<name, place>>
    <3>1. at \in SplitNames \X DOMAIN positives["train"]
      BY <2>1
    <3>2. ~(positives[at[1]][at[2]] < c.minimum[at[1]])
      <4>. HIDE DEF at
      <4>. QED BY <3>1 DEF HardErrors
    <3>3. ~(positives[name][place] < c.minimum[name])
      BY <3>2
    <3>4. c.minimum[name] \in Nat
      BY <1>2
    <3>. QED BY <2>1, <3>3, <3>4
  <2>3. ASSUME NEW place \in 1..targets, 0 < positives[name][place]
        PROVE  positives[name][place] >= m.minimum[name]
    BY <2>1, <2>3
  <2>. QED BY <2>1, <2>2, <2>3 DEF Low
<1>5. ASSUME NEW x, NEW name,
             IsFiniteSet(Low(positives, x, name))
      PROVE  /\ Listed(WarningsIn(positives, x, name))
             /\ Len(WarningsIn(positives, x, name)) = Cardinality(Low(positives, x, name))
             /\ \A k \in DOMAIN WarningsIn(positives, x, name) :
                   WarningsIn(positives, x, name)[k].threshold = x.threshold
  <2>. DEFINE w == WarningsIn(positives, x, name)
              n == Cardinality(Low(positives, x, name))
  <2>1. n \in Nat
    BY <1>5, FS_CardinalityType
  <2>2. w = [k \in 1..n |-> w[k]] /\ \A k \in 1..n : w[k].threshold = x.threshold
    BY DEF WarningsIn
  <2>. HIDE DEF w, n
  <2>3. Listed(w) /\ Len(w) = n /\ DOMAIN w = 1..n
    BY <2>1, <2>2, FunctionsAreLists
  <2>. QED BY <2>2, <2>3 DEF w, n
<1>6. \A name \in SplitNames : /\ IsFiniteSet(Low(positives, c, name))
                               /\ IsFiniteSet(Low(positives, m, name))
  <2>1. IsFiniteSet(1..targets)
    <3>1. targets \in Int /\ 1 \in Int
      OBVIOUS
    <3>. QED BY <3>1, FS_Interval
  <2>. QED BY <1>4, <2>1, FS_Subset
<1>. DEFINE v == WarningsIn(positives, c, "validation")
            t == WarningsIn(positives, c, "test")
<1>7. CASE v \o t # <<>>
  <2>1. /\ Listed(v) /\ Listed(t)
        /\ \A k \in DOMAIN v : v[k].threshold = c.threshold
        /\ \A k \in DOMAIN t : t[k].threshold = c.threshold
    BY <1>3, <1>5, <1>6
  <2>. HIDE DEF v, t
  <2>2. (v \o t)[1].threshold = c.threshold
    BY <1>7, <2>1, BothLists
  <2>3. m.threshold = c.threshold
    BY <1>1, <1>7, <2>2 DEF v, t
  <2>4. \A name \in SplitNames : Low(positives, c, name) = Low(positives, m, name)
    BY <1>4, <2>3
  <2>5. \A name \in SplitNames : WarningsIn(positives, c, name) = WarningsIn(positives, m, name)
    BY <2>3, <2>4 DEF WarningsIn
  <2>. QED BY <1>1, <1>3, <2>5
<1>8. CASE v \o t = <<>> /\ ~(c.threshold < FallbackThreshold)
  <2>1. /\ Listed(v) /\ Len(v) = Cardinality(Low(positives, c, "validation"))
        /\ Listed(t) /\ Len(t) = Cardinality(Low(positives, c, "test"))
    BY <1>3, <1>5, <1>6
  <2>2. m.threshold = FallbackThreshold
    BY <1>1, <1>8
  <2>. HIDE DEF v, t
  <2>3. Len(v) = 0 /\ Len(t) = 0
    BY <1>8, <2>1, BothLists
  <2>4. ASSUME NEW name \in {"validation", "test"} PROVE Low(positives, m, name) = {}
    <3>1. Cardinality(Low(positives, c, name)) = 0 /\ IsFiniteSet(Low(positives, c, name))
      BY <1>3, <1>6, <2>1, <2>3
    <3>2. Low(positives, c, name) = {}
      BY <3>1, FS_EmptySet
    <3>3. \A place \in 1..targets : positives[name][place] \in Int
      BY <1>3
    <3>4. FallbackThreshold =< c.threshold
      BY <1>2, <1>8
    <3>5. Low(positives, m, name) \subseteq Low(positives, c, name)
      <4>. SUFFICES ASSUME NEW place \in 1..targets, 0 < positives[name][place],
                           positives[name][place] < FallbackThreshold
                    PROVE  positives[name][place] < c.threshold
        BY <1>3, <1>4, <2>2
      <4>1. positives[name][place] \in Int
        BY <3>3
      <4>. QED BY <1>2, <3>4, <4>1
    <3>. QED BY <3>2, <3>5
  <2>5. /\ Listed(WarningsIn(positives, m, "validation"))
        /\ Len(WarningsIn(positives, m, "validation")) = 0
        /\ Listed(WarningsIn(positives, m, "test"))
        /\ Len(WarningsIn(positives, m, "test")) = 0
    BY <1>3, <1>5, <1>6, <2>4, FS_EmptySet
  <2>6. SupportWarnings(positives, m) = <<>>
    BY <1>1, <2>5, BothLists
  <2>. QED BY <1>1, <1>8, <2>6 DEF v, t
<1>9. CASE v \o t = <<>> /\ c.threshold < FallbackThreshold
  BY <1>1, <1>9
<1>. QED BY <1>7, <1>8, <1>9

\* What is staged is accepted, unless the validator warns of more than the builder did.
LEMMA StagedRefusalIsExplained ==
    ASSUME NEW d \in Datasets, NEW c \in SplitConfigs, NEW pol,
           Listed(pol.coverage.included),
           Cardinality(ToSet(pol.coverage.included)) = Len(pol.coverage.included),
           pol.coverage.included = LabelsOf(Included(pol.decisions)),
           Supported(d, pol, c)
    PROVE  LET a == ArtifactOf(d, pol, c)
           IN \/ AgainstInputs(a, d, pol, c)
              \/ c.threshold < FallbackThreshold /\ a.report.warnings = <<>>
<1>. DEFINE a == ArtifactOf(d, pol, c)
            canonical == pol.coverage.included
            records == TransformIssues(d, canonical, c)
            report == SplitReport(records, canonical, c)
            splits == [name \in SplitNames |-> SplitStatistics(records, name, canonical)]
            positives == [name \in SplitNames |-> splits[name].positives]
            stats == ScanRecords(a)
            manifest == ConfigFromManifest(a)
<1>1. /\ a.validation = c.validation /\ a.test = c.test /\ a.written = Len(records)
      /\ a.targets = Len(canonical) /\ a.labels = canonical /\ a.records = records
      /\ a.report = report
  BY DEF ArtifactOf
<1>2. /\ report.validation = c.validation /\ report.test = c.test
      /\ report.global = GlobalStatistics(records, canonical) /\ report.splits = splits
      /\ report.warnings = SupportWarnings(positives, c)
  BY DEF SplitReport
<1>3. /\ manifest.minimum = [name \in SplitNames |-> 1]
      /\ manifest.threshold = IF a.report.warnings = <<>> THEN FallbackThreshold
                              ELSE a.report.warnings[1].threshold
  BY DEF ConfigFromManifest
<1>4. /\ Stored(d, records, canonical, c) /\ Len(records) = Len(d)
      /\ \A j, k \in DOMAIN records : j # k => records[j].id # records[k].id
  BY BuiltRecords
<1>5. HardErrors(positives, c) = {}
  <2>1. HardErrors([name \in SplitNames |-> a.report.splits[name].positives], c) = {}
    BY DEF Supported
  <2>2. [name \in SplitNames |-> a.report.splits[name].positives] = positives
    <3>. HIDE DEF a, splits, report
    <3>. QED BY <1>1, <1>2
  <2>. HIDE DEF a, positives
  <2>. QED BY <2>1, <2>2
<1>6. ASSUME NEW name \in SplitNames PROVE positives[name] \in [1..Len(canonical) -> Nat]
  <2>1. positives[name] = [place \in DOMAIN canonical |-> Positives(records, name, place)]
    BY DEF SplitStatistics
  <2>. HIDE DEF positives, records, canonical
  <2>2. DOMAIN canonical = 1..Len(canonical)
    BY ListPlaces DEF canonical
  <2>3. ASSUME NEW place PROVE Positives(records, name, place) \in Nat
    <3>1. IsFiniteSet(DOMAIN records)
      BY <1>4, ListPlaces DEF Stored
    <3>2. {k \in InSplit(records, name) : records[k].target[place] = 1} \subseteq DOMAIN records
      BY DEF InSplit
    <3>. QED BY <3>1, <3>2, PartOfFinite DEF Positives
  <2>. QED BY <2>1, <2>2, <2>3
<1>7. Len(canonical) \in Nat
  BY ListPlaces
<1>. HIDE DEF positives
<1>8. \/ SupportWarnings(positives, c) = SupportWarnings(positives, manifest)
      \/ c.threshold < FallbackThreshold /\ SupportWarnings(positives, c) = <<>>
  <2>1. manifest.threshold = IF SupportWarnings(positives, c) = <<>> THEN FallbackThreshold
                             ELSE SupportWarnings(positives, c)[1].threshold
    <3>. HIDE DEF manifest, a, report
    <3>. QED BY <1>1, <1>2, <1>3
  <2>. HIDE DEF manifest, canonical
  <2>. QED BY <1>3, <1>5, <1>6, <1>7, <2>1, WarningsAgree
<1>9. SUFFICES ASSUME SupportWarnings(positives, c) = SupportWarnings(positives, manifest)
               PROVE  AgainstInputs(a, d, pol, c)
  <2>. HIDE DEF a, manifest, report
  <2>. QED BY <1>1, <1>2, <1>8 DEF a
<1>10. ConsistentRecords(a)
  <2>. HIDE DEF a
  <2>1. a.records = TransformIssues(d, canonical, c) /\ a.written = Len(a.records)
    BY <1>1
  <2>. HIDE DEF canonical, records
  <2>2. Listed(canonical)
    BY DEF canonical
  <2>. QED BY <1>1, <2>1, <2>2, BuiltAreConsistent
<1>11. /\ stats.splits = splits /\ stats.total = Len(records)
       /\ [total |-> stats.total, withTarget |-> stats.withTarget,
           withoutTarget |-> stats.total - stats.withTarget,
           assignments |-> stats.assignments] = GlobalStatistics(records, canonical)
  <2>1. Listed(records) /\ Len(records) \in Nat /\ DOMAIN records = 1..Len(records)
    BY <1>4, ListPlaces DEF Stored
  <2>2. \A k \in 1..Len(records) : Readable(records[k], Len(canonical))
    <3>. SUFFICES ASSUME NEW k \in 1..Len(records) PROVE Readable(records[k], Len(canonical))
      OBVIOUS
    <3>. HIDE DEF records, canonical
    <3>1. /\ records[k].id \in DOMAIN d
          /\ records[k] = RecordOf(d, records[k].id, canonical, c)
      BY <1>4, <2>1 DEF Stored
    <3>2. Readable(RecordOf(d, records[k].id, canonical, c), Len(canonical))
      BY <3>1, RecordIsReadable DEF canonical
    <3>. QED BY <3>1, <3>2
  <2>3. stats = UpTo(records, Len(records), Len(canonical))
    <3>. HIDE DEF a, records, canonical
    <3>. QED BY <1>1, <1>7, <2>1, <2>2, ScanIsUpTo
  <2>4. UpTo(records, Len(records), Len(canonical)).total = Len(records)
    BY DEF UpTo
  <2>. HIDE DEF stats, records, canonical
  <2>. QED BY <2>1, <2>3, <2>4, UpToTheEnd DEF canonical, splits
<1>12. ReportMatchesScan(stats, a)
  <2>1. [name \in SplitNames |-> stats.splits[name].positives] = positives
    <3>. HIDE DEF stats, splits
    <3>. QED BY <1>11 DEF positives
  <2>2. a.report.warnings = SupportWarnings(
           [name \in SplitNames |-> stats.splits[name].positives], manifest)
    <3>. HIDE DEF stats, a, report, manifest
    <3>. QED BY <1>1, <1>2, <1>9, <2>1
  <2>3. /\ a.report.global = [total |-> stats.total, withTarget |-> stats.withTarget,
                              withoutTarget |-> stats.total - stats.withTarget,
                              assignments |-> stats.assignments]
        /\ stats.total = a.written /\ Len(a.labels) = a.targets
        /\ a.report.splits = stats.splits
    <3>. HIDE DEF stats, a, report, splits, records, canonical
    <3>. QED BY <1>1, <1>2, <1>11
  <2>. HIDE DEF stats, a
  <2>. QED BY <2>2, <2>3 DEF ReportMatchesScan, manifest
<1>13. Intact(a)
  <2>1. /\ Len(a.labels) = a.targets /\ Cardinality(ToSet(a.labels)) = Len(a.labels)
        /\ a.report.validation = a.validation /\ a.report.test = a.test
    <3>. HIDE DEF a, report
    <3>. QED BY <1>1, <1>2
  <2>. HIDE DEF a
  <2>. QED BY <1>10, <1>12, <2>1 DEF Intact, stats
<1>14. PolicyLabelOrder(a, pol)
  BY <1>1 DEF PolicyLabelOrder
<1>15. RecordsDeriveFromSource(a, d, canonical, c)
  <2>. HIDE DEF a, records, canonical
  <2>. QED BY <1>1, <1>4 DEF RecordsDeriveFromSource, Stored
<1>. HIDE DEF a
<1>. QED BY <1>1, <1>13, <1>14, <1>15 DEF AgainstInputs

-----------------------------------------------------------------------------
(* What the commands have accepted.                                        *)

\* The stages at which a model dataset that was validated is in use.
Held == {"published", "reused", "index staged", "index published", "index altered",
         "index reused", "index refused"}

Decided ==
    /\ stage \in {"normalized", "audited"} => policy = None
    /\ policy # None =>
          /\ config \in PolicyConfigs
          /\ \A k \in DOMAIN policy.decisions :
                /\ Selectable(policy.decisions[k], config)
                /\ \E l : policy.decisions[k] = DecisionRecord(issues, config, l)
    /\ stage \in Held \cup {"decided", "staged", "altered"} =>
          /\ Listed(policy.coverage.included)
          /\ policy.coverage = Coverage(issues, policy.decisions)

Split ==
    /\ stage \in Held \cup {"staged", "altered"} =>
          split \in SplitConfigs /\ Filed(artifact) /\ Supported(issues, policy, split)
    /\ stage \in Held => AgainstInputs(artifact, issues, policy, split)

Indexed ==
    /\ stage \in {"index staged", "index published", "index altered", "index reused"} =>
          texts \in Similarities /\ topK \in TopKs /\ Shaped(retrieval)
    /\ stage \in {"index published", "index reused"} => IndexAccepted

IInv == issues \in Datasets /\ Decided /\ Split /\ Indexed

\* What is in use derives from the issues.
LEMMA HeldIsStored ==
    ASSUME IInv, stage \in Held
    PROVE  /\ issues \in Datasets /\ split \in SplitConfigs
           /\ Stored(issues, artifact.records, policy.coverage.included, split)
  BY DEF IInv, Split, Filed, Stored, Listed, AgainstInputs, RecordsDeriveFromSource

\* What the runs begin with satisfies the invariant.
LEMMA InitIInv == Init => IInv
  BY DEF Init, IInv, Decided, Split, Indexed, Held

\* Every command keeps it.
LEMMA StepIInv == IInv /\ [Next]_vars => IInv'
<1>. SUFFICES ASSUME IInv, [Next]_vars PROVE IInv'
  OBVIOUS
<1>1. issues' = issues
  BY DEF Next, vars, AuditDataset, BuildLabelPolicy, BuildModelDataset, ValidateStaged, Alter,
         Reuse, BuildRetrieval, ValidateRetrieval, AlterRetrieval, ReuseRetrieval, curated,
         indexed
<1>2. CASE AuditDataset
  BY <1>1, <1>2 DEF IInv, Decided, Split, Indexed, Held, AuditDataset
<1>3. CASE BuildLabelPolicy
  <2>1. Split' /\ Indexed'
    BY <1>1, <1>3 DEF IInv, Split, Indexed, Held, BuildLabelPolicy
  <2>2. CASE UNCHANGED policy /\ stage' = "policy refused"
    <3>1. policy' = None
      BY <1>3, <2>2 DEF IInv, Decided, BuildLabelPolicy
    <3>. QED BY <1>1, <2>1, <2>2, <3>1 DEF IInv, Decided, Held
  <2>3. CASE ~(UNCHANGED policy /\ stage' = "policy refused")
    <3>. DEFINE built == PolicyOf(issues, config', audit)
    <3>1. /\ policy' = built /\ stage' = "decided" /\ config' \in PolicyConfigs
          /\ \A k \in DOMAIN built.decisions : Selectable(built.decisions[k], config')
          /\ AgreesWithAudit(issues, audit)
      BY <1>3, <2>3 DEF BuildLabelPolicy
    <3>2. /\ built.decisions = Decisions(issues, config', audit)
          /\ built.coverage.included = LabelsOf(Included(built.decisions))
      BY DEF PolicyOf, Coverage
    <3>3. \A k \in DOMAIN built.decisions :
             \E l : built.decisions[k] = DecisionRecord(issues, config', l)
      BY <3>2 DEF Decisions
    <3>4. IsFiniteSet(DOMAIN built.decisions)
      <4>1. DOMAIN built.decisions = 1..Cardinality(AuditedLabels(audit))
        BY <3>2 DEF Decisions, RankedBy, SortedBy
      <4>2. Cardinality(AuditedLabels(audit)) \in Int
        BY <3>1, AuditedAreFinite, FS_CardinalityType DEF IInv
      <4>. QED BY <4>1, <4>2, FS_Interval
    <3>. HIDE DEF built
    <3>5. Listed(built.coverage.included)
      BY <3>2, <3>4, IncludedIsListed
    <3>6. built.coverage = Coverage(issues, built.decisions)
      BY <3>2 DEF PolicyOf, built
    <3>7. Decided'
      BY <1>1, <3>1, <3>3, <3>5, <3>6 DEF Decided
    <3>. QED BY <1>1, <2>1, <3>7 DEF IInv
  <2>. QED BY <2>2, <2>3
<1>4. CASE BuildModelDataset
  <2>1. UNCHANGED <<issues, config, policy>> /\ stage = "decided"
        /\ stage' \in {"staged", "split refused"} /\ split' \in SplitConfigs
    BY <1>4 DEF BuildModelDataset
  <2>2. Decided' /\ Indexed'
    BY <2>1 DEF IInv, Decided, Indexed
  <2>3. stage' = "staged" => Filed(artifact') /\ Supported(issues', policy', split')
    BY <1>4, StagedIsFiled DEF BuildModelDataset, IInv
  <2>4. Split'
    BY <2>1, <2>3 DEF Split, Held
  <2>. QED BY <1>1, <2>2, <2>4 DEF IInv
<1>5. CASE ValidateStaged
  BY <1>1, <1>5 DEF IInv, Decided, Split, Indexed, Held, ValidateStaged, curated
<1>6. CASE Alter
  <2>1. UNCHANGED <<issues, config, policy, split>> /\ stage = "published" /\ stage' = "altered"
        /\ artifact' \in AlteredForms
    BY <1>6 DEF Alter
  <2>2. Filed(artifact')
    BY <2>1, AlteredIsFiled DEF IInv, Split, Held
  <2>. QED BY <1>1, <2>1, <2>2 DEF IInv, Decided, Split, Indexed, Held
<1>7. CASE Reuse
  BY <1>1, <1>7 DEF IInv, Decided, Split, Indexed, Held, Reuse, curated
<1>8. CASE BuildRetrieval
  <2>1. /\ UNCHANGED curated /\ stage = "published" /\ stage' = "index staged"
        /\ texts' \in Similarities /\ topK' \in TopKs
        /\ retrieval' = RetrievalOf(artifact.records, topK', texts')
    BY <1>8 DEF BuildRetrieval
  <2>2. Shaped(retrieval')
    <3>1. topK' \in Nat
      BY <2>1, CurationAssumption
    <3>2. stage \in Held
      BY <2>1 DEF Held
    <3>. QED BY <2>1, <3>1, <3>2, HeldIsStored, BuiltIsShaped
  <2>3. Indexed'
    BY <2>1, <2>2 DEF Indexed
  <2>. QED BY <1>1, <2>1, <2>3 DEF IInv, Decided, Split, Held, curated
<1>9. CASE ValidateRetrieval
  <2>1. UNCHANGED <<curated, indexed>> /\ stage = "index staged"
        /\ stage' = IF IndexAccepted /\ IndexConsistent(retrieval) THEN "index published"
                    ELSE "index refused"
    BY <1>9 DEF ValidateRetrieval
  <2>2. Indexed'
    BY <2>1 DEF IInv, Indexed, IndexAccepted, curated, indexed
  <2>. QED BY <1>1, <2>1, <2>2 DEF IInv, Decided, Split, Held, curated
<1>10. CASE AlterRetrieval
  <2>1. UNCHANGED <<curated, texts, topK>> /\ stage = "index published"
        /\ stage' = "index altered" /\ retrieval' \in AlteredIndexes
    BY <1>10 DEF AlterRetrieval
  <2>2. Shaped(retrieval')
    <3>1. stage \in Held
      BY <2>1 DEF Held
    <3>2. texts \in Similarities /\ Shaped(retrieval)
      BY <2>1 DEF IInv, Indexed
    <3>. QED BY <2>1, <3>1, <3>2, HeldIsStored, AlteredIsShaped
  <2>3. Indexed'
    BY <2>1, <2>2 DEF IInv, Indexed
  <2>. QED BY <1>1, <2>1, <2>3 DEF IInv, Decided, Split, Held, curated
<1>11. CASE ReuseRetrieval
  <2>1. UNCHANGED <<curated, indexed>> /\ stage \in {"index published", "index altered"}
        /\ stage' = IF IndexAccepted THEN "index reused" ELSE "index refused"
    BY <1>11 DEF ReuseRetrieval
  <2>2. Indexed'
    BY <2>1 DEF IInv, Indexed, IndexAccepted, curated, indexed
  <2>. QED BY <1>1, <2>1, <2>2 DEF IInv, Decided, Split, Held, curated
<1>12. CASE UNCHANGED vars
  BY <1>12 DEF IInv, Decided, Split, Indexed, IndexAccepted, vars
<1>. QED BY <1>2, <1>3, <1>4, <1>5, <1>6, <1>7, <1>8, <1>9, <1>10, <1>11, <1>12 DEF Next

\* The invariant holds always.
THEOREM Invariance == Spec => []IInv
  BY InitIInv, StepIInv, PTL DEF Spec

-----------------------------------------------------------------------------
(* Theorems.                                                               *)

\* The issues with a label in the recent months are counted by numbers.
LEMMA RecentCounts ==
    ASSUME NEW d \in Datasets, NEW label, NEW months,
           RecentSupport(d, label, months) # 0
    PROVE  \E i \in With(d, label) : MonthOf[d[i].created] \in RecentWindow(d, months)
<1>. DEFINE found == {i \in With(d, label) :
                         MonthOf[d[i].created] \in RecentWindow(d, months)}
<1>1. Cardinality(found) # 0
  BY DEF RecentSupport
<1>2. found # {}
  <2>. HIDE DEF found
  <2>. QED BY <1>1, FS_EmptySet
<1>. QED BY <1>2

\* A label is taken as a target by its support in the last active months, or by an
\* override that says so: build-label-policy checks every decision.
THEOREM TargetsAreAlwaysInUse == Spec => []TargetsAreInUse
<1>1. IInv => TargetsAreInUse
  <2>. SUFFICES ASSUME IInv, policy # None, NEW k \in DOMAIN policy.decisions,
                       policy.decisions[k].decision = "include",
                       ~policy.decisions[k].override
                PROVE  \E i \in DOMAIN issues :
                          /\ policy.decisions[k].label \in issues[i].labels
                          /\ Cardinality({MonthOf[issues[j].created] : j \in
                                 {j \in DOMAIN issues : MonthOf[issues[j].created]
                                                          > MonthOf[issues[i].created]}})
                                < config.window
    BY DEF TargetsAreInUse
  <2>1. /\ issues \in Datasets /\ config \in PolicyConfigs
        /\ Selectable(policy.decisions[k], config)
    BY DEF IInv, Decided
  <2>2. PICK l : policy.decisions[k] = DecisionRecord(issues, config, l)
    BY DEF IInv, Decided
  <2>3. policy.decisions[k].label = l
        /\ policy.decisions[k].recent = RecentSupport(issues, l, config.window)
    BY <2>2 DEF DecisionRecord
  <2>4. policy.decisions[k].recent >= config.minRecent /\ config.minRecent \in Nat \ {0}
    BY <2>1, CurationAssumption DEF Selectable, MeetsCriteria
  <2>5. RecentSupport(issues, l, config.window) # 0
    BY <2>3, <2>4
  <2>6. PICK i \in With(issues, l) :
           MonthOf[issues[i].created] \in RecentWindow(issues, config.window)
    BY <2>1, <2>5, RecentCounts
  <2>7. i \in DOMAIN issues /\ l \in issues[i].labels
    BY <2>6 DEF With
  <2>8. {n \in ActiveMonths(issues) : n > MonthOf[issues[i].created]}
           = {MonthOf[issues[j].created] : j \in
                {j \in DOMAIN issues : MonthOf[issues[j].created] > MonthOf[issues[i].created]}}
    BY DEF ActiveMonths
  <2>9. Cardinality({n \in ActiveMonths(issues) : n > MonthOf[issues[i].created]})
           < config.window
    BY <2>6 DEF RecentWindow
  <2>. QED BY <2>3, <2>7, <2>8, <2>9
<1>. QED BY <1>1, Invariance, PTL

\* A model dataset that is used has the split of every issue from its time alone: nothing
\* is trained on that is later than what it is evaluated on, whatever is on disk.
THEOREM ThereIsNoLookAhead == Spec => []NoLookAhead
<1>1. IInv => NoLookAhead
  <2>. DEFINE records == artifact.records
              place(name) == CHOOSE k \in 1..3 : Splits[k] = name
  <2>. SUFFICES ASSUME IInv, stage \in {"published", "reused"}
                PROVE  /\ {records[k].id : k \in DOMAIN records} = DOMAIN issues
                       /\ \A j, k \in DOMAIN records :
                             records[j].created =< records[k].created =>
                                [name \in SplitNames |-> place(name)][records[j].split]
                                   =< [name \in SplitNames |-> place(name)][records[k].split]
                       /\ \A k \in DOMAIN records :
                             records[k].created = split.test => records[k].split = "test"
    BY DEF NoLookAhead
  <2>1. /\ issues \in Datasets /\ split \in SplitConfigs /\ Filed(artifact)
        /\ AgainstInputs(artifact, issues, policy, split)
    BY DEF IInv, Split, Held
  <2>2. PICK S : records \in Seq(S)
    BY <2>1 DEF Filed, Listed
  <2>3. /\ Len(records) = Len(issues)
        /\ \A k \in DOMAIN records :
              /\ records[k].id \in DOMAIN issues
              /\ records[k] = RecordOf(issues, records[k].id, policy.coverage.included, split)
        /\ \A j, k \in DOMAIN records : j # k => records[j].id # records[k].id
    BY <2>1 DEF AgainstInputs, RecordsDeriveFromSource, Intact, ConsistentRecords
  <2>4. {records[k].id : k \in DOMAIN records} = DOMAIN issues
    <3>. HIDE DEF records
    <3>. QED BY <2>1, <2>2, <2>3, EveryIssueHasARecord
  <2>. HIDE DEF records
  <2>5. ASSUME NEW k \in DOMAIN records
        PROVE  /\ records[k].created \in Int
               /\ records[k].split = AssignSplit(records[k].created, split)
    <3>1. issues[records[k].id].created \in Int
      BY <2>1, <2>3, IssuesAreListed
    <3>2. /\ records[k].created = issues[records[k].id].created
          /\ records[k].split = AssignSplit(issues[records[k].id].created, split)
      <4>. DEFINE r == RecordOf(issues, records[k].id, policy.coverage.included, split)
      <4>1. /\ r.created = issues[records[k].id].created
            /\ r.split = AssignSplit(issues[records[k].id].created, split)
        BY DEF RecordOf
      <4>2. records[k] = r
        BY <2>3
      <4>. HIDE DEF r
      <4>. QED BY <4>1, <4>2
    <3>. QED BY <3>1, <3>2
  <2>6. ASSUME NEW k \in DOMAIN records PROVE records[k].split \in SplitNames
    <3>1. AssignSplit(records[k].created, split) \in {"train", "validation", "test"}
      BY <2>1, <2>5, SplitByTime
    <3>. QED BY <2>5, <3>1, SplitPlaces
  <2>7. ASSUME NEW j \in DOMAIN records, NEW k \in DOMAIN records,
               records[j].created =< records[k].created
        PROVE  [name \in SplitNames |-> place(name)][records[j].split]
                  =< [name \in SplitNames |-> place(name)][records[k].split]
    <3>1. place(records[j].split) =< place(records[k].split)
      BY <2>1, <2>5, <2>7, SplitsInOrder
    <3>. HIDE DEF place
    <3>. QED BY <2>6, <3>1
  <2>8. ASSUME NEW k \in DOMAIN records, records[k].created = split.test
        PROVE  records[k].split = "test"
    BY <2>1, <2>5, <2>8, SplitByTime
  <2>. QED BY <2>4, <2>7, <2>8
<1>. QED BY <1>1, Invariance, PTL

\* An index that is used, its corpus altered or not: what is stored for an evaluated issue are
\* older issues that the model is trained on, and none of those that was left out is nearer; a
\* server that loads the index finds the same.
THEOREM NeighborsAreAlwaysTheNearest == Spec => []NeighborsAreTheNearest
<1>1. IInv => NeighborsAreTheNearest
  <2>. SUFFICES ASSUME IInv, stage \in {"index published", "index reused"},
                       NEW s \in Queries, NEW k \in DOMAIN retrieval.neighbors[s]
                PROVE  LET row == retrieval.neighbors[s][k]
                           near == texts[row.query]
                           found == [n \in DOMAIN row.neighbors |-> row.neighbors[n].id]
                           served == SimilarIssues(retrieval, near, topK, row.selected)
                           trained == Trained(artifact.records)
                       IN /\ ToSet(found) \subseteq trained
                          /\ \A i \in ToSet(found) : issues[i].created < issues[row.query].created
                          /\ \A n \in DOMAIN found, i \in trained :
                                i \in ToSet(SubSeq(found, 1, n)) \/ near[i] < near[found[n]]
                                  \/ (near[i] = near[found[n]] /\ found[n] < i)
                          /\ Len(found) = Least(topK, Cardinality(trained))
                          /\ IndexConsistent(retrieval) =>
                                [n \in DOMAIN served |-> served[n].id] = found
    BY Zenon DEF NeighborsAreTheNearest, Trained
  <2>1. /\ issues \in Datasets /\ split \in SplitConfigs
        /\ Stored(issues, artifact.records, policy.coverage.included, split)
    BY HeldIsStored DEF Held
  <2>2. /\ texts \in Similarities /\ topK \in Nat /\ Shaped(retrieval)
        /\ RetrievalAgainstModelDataset(retrieval, artifact.records, topK, texts)
    BY CurationAssumption DEF IInv, Indexed, IndexAccepted
  <2>. DEFINE row == retrieval.neighbors[s][k]
  <2>3. NearestStored(issues, Trained(artifact.records), row, texts, topK)
    BY <2>1, <2>2, AcceptedRows
  <2>4. IndexConsistent(retrieval) =>
           ServedLikeStored(retrieval, row, texts, topK, row.selected)
    BY <2>1, <2>2, ServedIsFound
  <2>. HIDE DEF row
  <2>. QED BY <2>3, <2>4 DEF NearestStored, ServedLikeStored, row
<1>. QED BY <1>1, Invariance, PTL

\* A model dataset that is used again is the one that the dataset, the policy and the cutoffs
\* give, whatever was changed in the directory meanwhile: the validator reads all of it and
\* compares it with the inputs, and only the wording of the warnings is not determined.
THEOREM UsedIsAlwaysDerived == Spec => []UsedMeansDerived
<1>1. IInv => UsedMeansDerived
  <2>. SUFFICES ASSUME IInv, stage = "reused"
                PROVE  [artifact EXCEPT !.report.warnings = <<>>]
                         = [ArtifactOf(issues, policy, split) EXCEPT !.report.warnings = <<>>]
    BY DEF UsedMeansDerived
  <2>1. /\ issues \in Datasets /\ split \in SplitConfigs /\ Filed(artifact)
        /\ AgainstInputs(artifact, issues, policy, split)
    BY DEF IInv, Split, Held
  <2>2. Listed(policy.coverage.included)
    BY DEF IInv, Decided, Held
  <2>3. Unwarned(artifact) = Unwarned(ArtifactOf(issues, policy, split))
    BY <2>1, <2>2, AcceptedIsDerived
  <2>. QED BY <2>3 DEF Unwarned
<1>. QED BY <1>1, Invariance, PTL

\* A model dataset that was validated has the targets that the policy promised for it: as
\* many issues with a target and as many assignments as the policy counted, and in each
\* split enough issues of each label.
THEOREM TargetsAlwaysCarryOver == Spec => []TargetsCarryOver
<1>1. IInv => TargetsCarryOver
  <2>. DEFINE canonical == policy.coverage.included
              records == artifact.records
  <2>. SUFFICES ASSUME IInv, stage \in {"published", "reused"}
                PROVE  /\ artifact.report.global.withTarget = policy.coverage.withTarget
                       /\ artifact.report.global.assignments = policy.coverage.assignments
                       /\ \A p \in DOMAIN canonical, name \in SplitNames :
                             Cardinality({i \in DOMAIN issues :
                                 /\ canonical[p] \in issues[i].labels
                                 /\ AssignSplit(issues[i].created, split) = name})
                               >= split.minimum[name]
    BY DEF TargetsCarryOver
  <2>1. /\ issues \in Datasets /\ split \in SplitConfigs /\ Filed(artifact)
        /\ AgainstInputs(artifact, issues, policy, split) /\ Supported(issues, policy, split)
    BY DEF IInv, Split, Held
  <2>2. Listed(canonical) /\ policy.coverage = Coverage(issues, policy.decisions)
    BY DEF IInv, Decided, Held
  <2>3. /\ records = TransformIssues(issues, canonical, split)
        /\ artifact.report.global = GlobalStatistics(records, canonical)
    BY <2>1, <2>2, AcceptedIsDerived
  <2>4. /\ Intact(artifact) /\ artifact.labels = canonical
        /\ RecordsDeriveFromSource(artifact, issues, canonical, split)
    BY <2>1 DEF AgainstInputs, PolicyLabelOrder
  <2>5. /\ Cardinality(ToSet(canonical)) = Len(canonical)
        /\ \A j, k \in DOMAIN records : j # k => records[j].id # records[k].id
        /\ Len(records) = Len(issues) /\ Stored(issues, records, canonical, split)
    BY <2>1, <2>4 DEF Intact, ConsistentRecords, RecordsDeriveFromSource, Stored, Filed
  <2>6. /\ policy.coverage.withTarget
             = Cardinality({i \in DOMAIN issues : issues[i].labels \cap ToSet(canonical) # {}})
        /\ policy.coverage.assignments
             = Cardinality({p \in (DOMAIN issues) \X ToSet(canonical) :
                               p[2] \in issues[p[1]].labels})
    <3>. DEFINE included == LabelsOf(Included(policy.decisions))
                targets == [i \in DOMAIN issues |-> issues[i].labels \cap ToSet(included)]
                coverage == Coverage(issues, policy.decisions)
    <3>1. /\ coverage.included = included
          /\ coverage.withTarget = Cardinality({i \in DOMAIN issues : targets[i] # {}})
          /\ coverage.assignments
               = Cardinality({p \in (DOMAIN issues) \X ToSet(included) :
                                 p[2] \in issues[p[1]].labels})
      BY DEF Coverage
    <3>2. {i \in DOMAIN issues : targets[i] # {}}
            = {i \in DOMAIN issues : issues[i].labels \cap ToSet(included) # {}}
      OBVIOUS
    <3>. HIDE DEF included, targets, coverage
    <3>3. canonical = included
      BY <2>2, <3>1 DEF coverage
    <3>. HIDE DEF canonical
    <3>. QED BY <2>2, <3>1, <3>2, <3>3 DEF coverage
  <2>. HIDE DEF canonical, records
  <2>7. /\ GlobalStatistics(records, canonical).withTarget
             = Cardinality({i \in DOMAIN issues : issues[i].labels \cap ToSet(canonical) # {}})
        /\ GlobalStatistics(records, canonical).assignments
             = Cardinality({p \in (DOMAIN issues) \X ToSet(canonical) :
                               p[2] \in issues[p[1]].labels})
        /\ \A place \in DOMAIN canonical, name \in SplitNames :
             /\ Positives(records, name, place)
                  = Cardinality({i \in DOMAIN issues :
                                    /\ canonical[place] \in issues[i].labels
                                    /\ AssignSplit(issues[i].created, split) = name})
             /\ Positives(records, name, place) \in Nat
    BY <2>1, <2>2, <2>5, TargetsAreCarriedOver
  <2>8. ASSUME NEW place \in DOMAIN canonical, NEW name \in SplitNames
        PROVE  Positives(records, name, place) >= split.minimum[name]
    <3>. DEFINE report == SplitReport(records, canonical, split)
                positives == [n \in SplitNames |-> report.splits[n].positives]
    <3>1. ArtifactOf(issues, policy, split).report = report
      BY <2>3 DEF ArtifactOf, canonical
    <3>2. HardErrors(positives, split) = {}
      BY <2>1, <3>1 DEF Supported
    <3>3. report.splits = [n \in SplitNames |-> SplitStatistics(records, n, canonical)]
      BY DEF SplitReport
    <3>4. \A n \in SplitNames : positives[n] = [p \in DOMAIN canonical |-> Positives(records, n, p)]
      BY <3>3 DEF SplitStatistics
    <3>. HIDE DEF positives, report
    <3>5. "train" \in SplitNames
      BY SplitPlaces
    <3>6. DOMAIN positives["train"] = DOMAIN canonical
      BY <3>4, <3>5
    <3>7. ~(positives[name][place] < split.minimum[name])
      <4>. DEFINE at == <<name, place>>
      <4>1. at \in SplitNames \X DOMAIN positives["train"]
        BY <3>6
      <4>2. ~(positives[at[1]][at[2]] < split.minimum[at[1]])
        <5>. HIDE DEF at
        <5>. QED BY <3>2, <4>1 DEF HardErrors
      <4>. QED BY <4>2
    <3>8. positives[name][place] = Positives(records, name, place)
      BY <3>4
    <3>9. split.minimum[name] \in Nat
      BY <2>1, CurationAssumption
    <3>10. Positives(records, name, place) \in Nat
      BY <2>7
    <3>. QED BY <3>7, <3>8, <3>9, <3>10
  <2>9. artifact.report.global = GlobalStatistics(records, canonical)
    BY <2>3 DEF records, canonical
  <2>10. ASSUME NEW p \in DOMAIN canonical, NEW name \in SplitNames
         PROVE  Cardinality({i \in DOMAIN issues :
                                 /\ canonical[p] \in issues[i].labels
                                 /\ AssignSplit(issues[i].created, split) = name})
                   >= split.minimum[name]
    BY <2>7, <2>8
  <2>. QED BY <2>6, <2>7, <2>9, <2>10
<1>. QED BY <1>1, Invariance, PTL

\* What a command has computed from what it was given, and why it refused it.
Explained ==
    /\ stage = "normalized" => audit = None
    /\ audit # None => issues # <<>> /\ audit = AuditOf(issues)
    /\ stage = "audited" => issues # <<>> /\ audit = AuditOf(issues)
    /\ (stage = "policy refused" /\ UnknownLabels(config, audit) = {}) =>
          MissesCriteria(issues, config)
    /\ stage \in {"decided", "staged"} =>
          Cardinality(ToSet(policy.coverage.included)) = Len(policy.coverage.included)
    /\ stage = "staged" => artifact = ArtifactOf(issues, policy, split)
    /\ stage = "staged refused" =>
          split.threshold < FallbackThreshold /\ artifact.report.warnings = <<>>

\* Every command keeps it.
LEMMA StepExplained == IInv /\ Explained /\ [Next]_vars => Explained'
<1>. SUFFICES ASSUME IInv, Explained, [Next]_vars PROVE Explained'
  OBVIOUS
<1>1. CASE AuditDataset
  BY <1>1 DEF Explained, AuditDataset
<1>2. CASE BuildLabelPolicy
  <2>. DEFINE built == PolicyOf(issues, config', audit)
              accepted == /\ AgreesWithAudit(issues, audit)
                          /\ \A k \in DOMAIN built.decisions :
                                Selectable(built.decisions[k], config')
                          /\ ConsistentPolicy(built)
  <2>1. /\ issues \in Datasets /\ issues # <<>> /\ audit = AuditOf(issues)
        /\ config' \in PolicyConfigs /\ issues' = issues /\ audit' = audit
    BY <1>2 DEF IInv, Explained, BuildLabelPolicy
  <2>2. \/ /\ accepted /\ policy' = built /\ stage' = "decided"
        \/ /\ stage' = "policy refused"
           /\ UnknownLabels(config', audit) # {} \/ ~accepted
    BY <1>2 DEF BuildLabelPolicy
  <2>3. ~accepted => MissesCriteria(issues, config')
    BY <2>1, PolicyRefusalIsExplained
  <2>4. accepted => Cardinality(ToSet(built.coverage.included)) = Len(built.coverage.included)
    BY DEF ConsistentPolicy, ConsistentCoverage
  <2>. HIDE DEF built, accepted
  <2>. QED BY <2>1, <2>2, <2>3, <2>4 DEF Explained
<1>3. CASE BuildModelDataset
  BY <1>3 DEF Explained, BuildModelDataset
<1>4. CASE ValidateStaged
  <2>1. /\ stage = "staged" /\ artifact = ArtifactOf(issues, policy, split)
        /\ UNCHANGED curated
        /\ stage' = IF AgainstInputs(artifact, issues, policy, split) THEN "published"
                    ELSE "staged refused"
    BY <1>4 DEF ValidateStaged, Explained
  <2>2. /\ issues \in Datasets /\ split \in SplitConfigs /\ Listed(policy.coverage.included)
        /\ Cardinality(ToSet(policy.coverage.included)) = Len(policy.coverage.included)
        /\ policy.coverage = Coverage(issues, policy.decisions)
        /\ Supported(issues, policy, split)
    BY <2>1 DEF IInv, Decided, Split, Explained
  <2>3. policy.coverage.included = LabelsOf(Included(policy.decisions))
    BY <2>2, CoverageCounts
  <2>4. \/ AgainstInputs(artifact, issues, policy, split)
        \/ split.threshold < FallbackThreshold /\ artifact.report.warnings = <<>>
    BY <2>1, <2>2, <2>3, StagedRefusalIsExplained
  <2>. QED BY <2>1, <2>4 DEF Explained, curated
<1>5. CASE Alter \/ Reuse \/ BuildRetrieval \/ ValidateRetrieval \/ AlterRetrieval \/ ReuseRetrieval
  BY <1>5 DEF Explained, Alter, Reuse, BuildRetrieval, ValidateRetrieval, AlterRetrieval,
              ReuseRetrieval, curated
<1>6. CASE UNCHANGED vars
  BY <1>6 DEF Explained, vars, MissesCriteria
<1>. QED BY <1>1, <1>2, <1>3, <1>4, <1>5, <1>6 DEF Next

\* The commands refuse nothing that is in order: the audit's one pass and the policy's own
\* count agree for every dataset, so build-label-policy refuses a configuration only for a
\* target that misses a criterion, and build-model-dataset what it has staged itself only
\* if it warned of nothing at a threshold below the one its validator falls back to.
THEOREM RefusalsAreAlwaysExplained == Spec => []RefusalsAreExplained
<1>1. Init => Explained
  BY DEF Init, Explained
<1>2. IInv /\ Explained => RefusalsAreExplained
  <2>. SUFFICES ASSUME IInv, Explained PROVE RefusalsAreExplained
    OBVIOUS
  <2>1. audit # None => ConsistentAudit(audit)
    BY AuditCounts DEF IInv, Explained
  <2>. QED BY <2>1 DEF Explained, MissesCriteria, RefusalsAreExplained
<1>. QED BY <1>1, <1>2, Invariance, StepExplained, PTL DEF Spec
=============================================================================
