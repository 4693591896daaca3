---------------------------- MODULE ChromaSearch ----------------------------
(***************************************************************************)
(* ChromaVector.search_by_vector and search_by_full_text                   *)
(* (chroma_vector.py, lines 96-136) over a collection of entries.          *)
(*                                                                         *)
(* Embeddings are abstracted to the cosine similarity of each entry with   *)
(* the query, in units of 1/Unit; both are unit vectors, as the embedding  *)
(* models used with the adapter produce.  The backend's query is the exact *)
(* nearest-neighbour answer under the collection's distance function, with *)
(* ties in any order.                                                      *)
(***************************************************************************)
EXTENDS Integers, Sequences, FiniteSets, SequencesExt

CONSTANTS
    Ids,         \* entry ids
    DocIds,      \* values of the document_id metadata field
    Unit,        \* one similarity unit: similarities range over -Unit..Unit
    Sims,        \* the similarities entries can have with a query
    TopKs,       \* top_k values callers pass
    Thresholds,  \* score_threshold values (None or 0 means 0)
    Metric,      \* the collection's hnsw:space
    Absent       \* no entry under an id

ASSUME SearchAssumption ==
    /\ Unit \in Nat \ {0}
    /\ Sims \subseteq -Unit..Unit
    /\ TopKs \subseteq Nat \ {0}
    /\ Thresholds \subseteq Int
    /\ Metric \in {"l2", "cosine", "ip"}

VARIABLES
    store,    \* store[i]: the entry under id i, or Absent
    query,    \* the arguments of the last search_by_vector
    backend,  \* the ids collection.query returned for it, nearest first
    answer    \* the documents search_by_vector returned

vars == <<store, query, backend, answer>>

Entries == [doc : DocIds, sim : Sims]
Queries == [filter : SUBSET DocIds, topK : TopKs, threshold : Thresholds]
NoQuery == [filter |-> {}, topK |-> 1, threshold |-> 0]
Hits == [id : Ids, doc : DocIds, score : Int]

\* The distance Chroma reports for an entry, per hnsw:space: squared
\* euclidean ("l2", the default), 1 - cosine, or 1 - inner product; for
\* unit vectors the last two coincide.
Distance(e) ==
    CASE Metric = "l2" -> 2 * Unit - 2 * e.sim
      [] OTHER -> Unit - e.sim

Stored == {i \in Ids : store[i] # Absent}

\* where={"document_id": {"$in": document_ids_filter}}, applied only when
\* "if document_ids_filter:" holds: an empty list is falsy.
Candidates(q) ==
    IF q.filter # {} THEN {i \in Stored : store[i].doc \in q.filter}
    ELSE Stored

\* collection.query(n_results=top_k): the min(top_k, #candidates) nearest
\* candidates, nearest first, ties in any order.
NearestAnswers(q) ==
    LET C == Candidates(q)
        n == IF q.topK < Cardinality(C) THEN q.topK ELSE Cardinality(C)
        dist(i) == Distance(store[i])
    IN {s \in [1..n -> C] :
          /\ \A j, k \in 1..n : j < k => s[j] # s[k] /\ dist(s[j]) <= dist(s[k])
          /\ \A i \in C \ ToSet(s) : \A j \in 1..n : dist(s[j]) <= dist(i)}

\* Mutant: the threshold test written score >= score_threshold.
ScoredAtThreshold(rows, q) ==
    LET hit(i) == [id |-> i, doc |-> store[i].doc,
                   score |-> Unit - Distance(store[i])]
    IN SelectSeq([j \in 1..Len(rows) |-> hit(rows[j])],
                 LAMBDA h : h.score >= q.threshold)

\* Mutant: the whole stored metadata put where its document_id belongs.
ScoredWholeMetadata(rows, q) ==
    LET hit(i) == [id |-> i, doc |-> store[i],
                   score |-> Unit - Distance(store[i])]
    IN SelectSeq([j \in 1..Len(rows) |-> hit(rows[j])],
                 LAMBDA h : h.score > q.threshold)

\* The loop over the returned rows: score = 1 - distance, kept only when
\* score > score_threshold, with metadata["score"] = score.
Scored(rows, q) ==
    LET hit(i) == [id |-> i, doc |-> store[i].doc,
                   score |-> Unit - Distance(store[i])]
    IN SelectSeq([j \in 1..Len(rows) |-> hit(rows[j])],
                 LAMBDA h : h.score > q.threshold)

\* sorted(docs, key=score, reverse=True): Python's sort is stable, also
\* with reverse=True, so a hit goes after every hit of at least its score.
InsertByScore(sorted, h) ==
    LET k == Cardinality({j \in 1..Len(sorted) : sorted[j].score >= h.score})
    IN SubSeq(sorted, 1, k) \o <<h>> \o SubSeq(sorted, k + 1, Len(sorted))
SortedByScore(hits) == FoldLeft(InsertByScore, <<>>, hits)

SearchByVector(rows, q) == SortedByScore(Scored(rows, q))

TypeOK ==
    /\ store \in [Ids -> Entries \cup {Absent}]
    /\ query \in Queries
    /\ backend \in Seq(Ids)
    /\ answer \in Seq(Hits)

Init ==
    /\ store \in [Ids -> Entries \cup {Absent}]
    /\ query = NoQuery
    /\ backend = <<>>
    /\ answer = <<>>

\* search_by_vector(query_vector, top_k=, score_threshold=,
\* document_ids_filter=) on the current entries.
Search ==
    /\ \E q \in Queries : \E rows \in NearestAnswers(q) :
         /\ query' = q
         /\ backend' = rows
         /\ answer' = SearchByVector(rows, q)
    /\ UNCHANGED store

\* The entries are fixed by Init: how add_texts and the deletes change them
\* is ChromaVector's part, and a search reads them in one call.
Next == Search

Spec == Init /\ [][Next]_vars
-----------------------------------------------------------------------------
(***************************************************************************)
(* Properties.                                                             *)
(***************************************************************************)

ScoreOf(i) == Unit - Distance(store[i])
Position(s, i) == CHOOSE j \in 1..Len(s) : s[j] = i

\* Spec 4.1 and 8: search_by_vector returns at most top_k documents, each
\* scoring strictly above score_threshold, by descending score with ties in
\* the backend's order; it keeps every returned row above the threshold,
\* and no candidate left out scores higher than one returned.
SearchMeetsContract ==
    LET ids == {answer[j].id : j \in 1..Len(answer)}
        kept == {i \in ToSet(backend) : ScoreOf(i) > query.threshold}
    IN /\ Len(answer) <= query.topK
       /\ \A j \in 1..Len(answer) : answer[j].score > query.threshold
       /\ \A j, k \in 1..Len(answer) : j < k =>
            \/ answer[j].score > answer[k].score
            \/ /\ answer[j].score = answer[k].score
               /\ Position(backend, answer[j].id) < Position(backend, answer[k].id)
       /\ ids = kept /\ Len(answer) = Cardinality(kept)
       /\ \A i \in Candidates(query) \ ids, j \in 1..Len(answer) :
            ScoreOf(i) <= answer[j].score

\* Spec 4.1: when document_ids_filter is supplied, only entries whose
\* document_id is in it are returned.
FilterHonoured == \A j \in 1..Len(answer) : answer[j].doc \in query.filter

\* Spec 4.1 and the scenario of section 8: the score is the similarity the
\* cosine distance gives, score = 1 - (1 - cos).
ScoreIsSimilarity ==
    \A j \in 1..Len(answer) : answer[j].score = store[answer[j].id].sim

=============================================================================
