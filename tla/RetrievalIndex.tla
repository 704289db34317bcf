---------------------------- MODULE RetrievalIndex ----------------------------
(***************************************************************************)
(* Similar issues (src/repotriage/retrieval/): an index of the training    *)
(* split, the nearest of its issues for every issue of the other splits,   *)
(* how often they share a target, and what the validators check. TF-IDF    *)
(* and cosine similarity are external: similarity[q][n] is what they give  *)
(* for two texts, any numbers will do, and an issue stands for its text.   *)
(* An artifact is [topK, corpus, trainIds, fitted, matrix, neighbors,      *)
(* metrics]: trainIds is the list in the manifest and the index metadata,  *)
(* fitted the fingerprint of the index, matrix the index itself, a row for *)
(* every issue it was fitted to. A fraction is a multiple of 1/Whole.      *)
(***************************************************************************)
EXTENDS ModelDataset

CONSTANTS
    Cuts,   \* 5 and 10 in the metrics
    Whole   \* what 1.0 is represented by

Queries == {"validation", "test"}
Least(m, n) == IF m < n THEN m ELSE n
SplitOf(records, split) ==
    LET here == {r \in ToSet(records) : r.split = split}
    IN SortedBy(here, RecordOrder(here))

CorpusRecord(record) == [id |-> record.id, selected |-> record.selected]

\* The vectorizer is fitted to the texts of the training split and of nothing else.
BuildIndex(records) ==
    LET train == SplitOf(records, "train")
    IN [corpus |-> [k \in DOMAIN train |-> CorpusRecord(train[k])],
        fitted |-> [k \in DOMAIN train |-> train[k].id]]

(***************************************************************************)
(* Search and metrics.                                                     *)
(***************************************************************************)

Shared(labels, others) == SelectSeq(labels, LAMBDA l : l \in ToSet(others))
Jaccard(labels, others) ==
    LET union == ToSet(labels) \cup ToSet(others)
    IN IF union = {} THEN 0
       ELSE (Whole * Cardinality(ToSet(labels) \cap ToSet(others))) \div Cardinality(union)

Annotated(rank, labels, row, near) ==
    [rank |-> rank, id |-> row.id, similarity |-> near, selected |-> row.selected,
     shared |-> Shared(labels, row.selected), jaccard |-> Jaccard(labels, row.selected),
     relevant |-> ToSet(labels) \cap ToSet(row.selected) # {}]

\* The nearest first, of equally near ones the one with the lower id.
Nearer(similarity, r, s) ==
    \/ similarity[r.id] > similarity[s.id]
    \/ similarity[r.id] = similarity[s.id] /\ r.id < s.id

Nearness(similarity, rows) == {p \in rows \X rows : Nearer(similarity, p[1], p[2])}

\* What is found for a record of another split.
RowOf(corpus, r, topK, similarity) ==
    LET ranked == SortedBy(ToSet(corpus), Nearness(similarity[r.id], ToSet(corpus)))
    IN [query |-> r.id, selected |-> r.selected,
        neighbors |-> [k \in 1..Least(topK, Len(corpus)) |->
            Annotated(k, r.selected, ranked[k], similarity[r.id][ranked[k].id])]]

SearchSplit(corpus, records, split, topK, similarity) ==
    LET queries == SplitOf(records, split)
    IN [k \in DOMAIN queries |-> RowOf(corpus, queries[k], topK, similarity)]

\* Over the queries that have a target; with none of those every metric is zero.
MeanOver(rows, Value(_)) ==
    LET scored == SelectSeq(rows, LAMBDA row : row.selected # <<>>)
    IN IF scored = <<>> THEN 0
       ELSE FoldLeft(LAMBDA n, row : n + Value(row.neighbors), 0, scored) \div Len(scored)

Within(neighbors, k) == SubSeq(neighbors, 1, Least(k, Len(neighbors)))
Relevant(neighbors) == {n \in ToSet(neighbors) : n.relevant}

RecallAt(rows, k) ==
    MeanOver(rows, LAMBDA ns : IF Relevant(Within(ns, k)) = {} THEN 0 ELSE Whole)
PrecisionAt(rows, k) ==
    MeanOver(rows, LAMBDA ns : (Whole * Cardinality(Relevant(Within(ns, k)))) \div k)
ReciprocalRank(rows, k) ==
    MeanOver(rows, LAMBDA ns :
        LET relevant == Relevant(Within(ns, k))
        IN IF relevant = {} THEN 0 ELSE Whole \div Min({n.rank : n \in relevant}))
BestJaccard(rows, k) ==
    MeanOver(rows, LAMBDA ns : Max({0} \cup {n.jaccard : n \in ToSet(Within(ns, k))}))
BestShared(rows, k) ==
    MeanOver(rows, LAMBDA ns :
        Whole * Max({0} \cup {Len(n.shared) : n \in ToSet(Within(ns, k))}))

RetrievalMetrics(rows) ==
    LET last == Cuts[Len(Cuts)]
        zero == SelectSeq(rows, LAMBDA row : row.selected = <<>>)
    IN [total |-> Len(rows), allZero |-> Len(zero), scored |-> Len(rows) - Len(zero),
        recall |-> [c \in DOMAIN Cuts |-> RecallAt(rows, Cuts[c])],
        precision |-> [c \in DOMAIN Cuts |-> PrecisionAt(rows, Cuts[c])],
        mrr |-> ReciprocalRank(rows, last), jaccard |-> BestJaccard(rows, last),
        shared |-> BestShared(rows, last)]

\* build_retrieval_baseline, up to the directory: the test split is opened last.
RetrievalOf(records, topK, similarity) ==
    LET index == BuildIndex(records)
        found == [split \in Queries |->
                     SearchSplit(index.corpus, records, split, topK, similarity)]
    IN [topK |-> topK, corpus |-> index.corpus, trainIds |-> index.fitted,
        fitted |-> index.fitted, matrix |-> index.fitted, neighbors |-> found,
        metrics |-> [split \in Queries |-> RetrievalMetrics(found[split])]]

(***************************************************************************)
(* The validators.                                                         *)
(***************************************************************************)

NeighborsDescending(neighbors) ==
    /\ \A k \in DOMAIN neighbors : neighbors[k].rank = k
    /\ \A k \in DOMAIN neighbors : k > 1 =>
          neighbors[k].similarity =< neighbors[k - 1].similarity

NeighborsSound(artifact, rows) ==
    LET ids(seq) == {seq[k].id : k \in DOMAIN seq}
        queries == {rows[k].query : k \in DOMAIN rows}
    IN /\ Cardinality(queries) = Len(rows)
       /\ \A k \in DOMAIN rows :
             LET near == rows[k].neighbors
             IN /\ Len(near) = Least(artifact.topK, Len(artifact.corpus))
                /\ NeighborsDescending(near)
                /\ Cardinality(ids(near)) = Len(near)
                /\ ids(near) \subseteq ToSet(artifact.trainIds) \ queries

\* validate_retrieval_artifact_integrity: the corpus is compared with the artifact's own
\* list of train issues. Only the validation split's queries without a target are counted
\* again.
RetrievalIntact(artifact) ==
    /\ [k \in DOMAIN artifact.corpus |-> artifact.corpus[k].id] = artifact.trainIds
    /\ \A split \in Queries : NeighborsSound(artifact, artifact.neighbors[split])
    /\ artifact.metrics["validation"].allZero
          = Len(SelectSeq(artifact.neighbors["validation"], LAMBDA row : row.selected = <<>>))

\* Mutant: only the queries are compared.
QueriesClose(stored, again) ==
    /\ Len(stored) = Len(again)
    /\ \A k \in DOMAIN stored : stored[k].query = again[k].query

\* Queries, ids, ranks and similarities are compared, labels and overlaps are not.
NeighborsClose(stored, again) ==
    /\ Len(stored) = Len(again)
    /\ \A k \in DOMAIN stored :
          /\ stored[k].query = again[k].query
          /\ Len(stored[k].neighbors) = Len(again[k].neighbors)
          /\ \A n \in DOMAIN stored[k].neighbors :
                LET s == stored[k].neighbors[n]
                    a == again[k].neighbors[n]
                IN s.id = a.id /\ s.rank = a.rank /\ s.similarity = a.similarity

\* validate_retrieval_against_model_dataset: everything is computed again, with the
\* artifact's own settings. Of the index only the fingerprint is compared: neither the
\* corpus nor the list of train issues is held against the model dataset's.
RetrievalAgainstModelDataset(artifact, records, topK, similarity) ==
    LET again == RetrievalOf(records, artifact.topK, similarity)
        ids(split) == {r.id : r \in ToSet(SplitOf(records, split))}
    IN /\ RetrievalIntact(artifact)
       /\ artifact.topK = topK
       /\ artifact.fitted = again.fitted
       /\ ids("train") \cap (ids("validation") \cup ids("test")) = {}
       /\ \A split \in Queries :
             /\ NeighborsClose(artifact.neighbors[split], again.neighbors[split])
             /\ artifact.metrics[split] = again.metrics[split]

\* verify_retrieval_index_consistency, of a staged artifact, and the server's loader: the
\* index that was written down, matrix and corpus, is the one of the fingerprint.
IndexConsistent(artifact) ==
    /\ artifact.matrix = artifact.fitted
    /\ [k \in DOMAIN artifact.corpus |-> artifact.corpus[k].id] = artifact.fitted

(***************************************************************************)
(* The server's search: for one text, and the labels predicted for it.     *)
(***************************************************************************)

SimilarIssues(artifact, near, topK, predicted) ==
    LET row(k) == [id |-> artifact.corpus[k].id, similarity |-> near[artifact.matrix[k]],
                   selected |-> artifact.corpus[k].selected]
        rows == {row(k) : k \in DOMAIN artifact.corpus}
        ranked == SortedBy(rows, {p \in rows \X rows :
                      \/ p[1].similarity > p[2].similarity
                      \/ p[1].similarity = p[2].similarity /\ p[1].id < p[2].id})
    IN [k \in 1..Least(topK, Len(ranked)) |->
           [rank |-> k, id |-> ranked[k].id, similarity |-> ranked[k].similarity,
            selected |-> ranked[k].selected, overlap |-> Shared(predicted, ranked[k].selected)]]
=============================================================================
