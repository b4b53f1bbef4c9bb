---------------------------- MODULE RankingEval ----------------------------
(***************************************************************************)
(* The retrieval evaluations over MultiHop-RAG, three programs on one      *)
(* Milvus collection (evals/rag/run_multihop_retrieval_eval.py,            *)
(* ..._chunk_rerank_eval.py and ..._lambdamart_eval.py): the index and the *)
(* graph they build or take over, the rankings of a query and their        *)
(* metrics.                                                                *)
(*                                                                         *)
(* Abstractions.  A document is its number, source and category; a score   *)
(* is its place in one of Orders, so embeddings, BM25, weighted features   *)
(* and a trained ranker order documents in any of those ways; what they    *)
(* order, cut and merge is the programs'.  An alias of a source is the     *)
(* source.  The caches of embeddings, the training itself, nDCG, latencies *)
(* and the reports' wording are left out.                                  *)
(***************************************************************************)
EXTENDS Rounding, Sequences, FiniteSets, SequencesExt

CONSTANTS
    Documents,     \* the corpus: a sequence of [source, category]
    Neighbours,    \* the pairs of documents that share an entity
    Questions,     \* the questions: a sequence of [type, evidence, mentions]
    Orders,        \* sequences of all documents
    Matching,      \* sets of documents that a query's terms may occur in
    RankingPlans,  \* sequences of command lines
    Near, Far,     \* where recall is cut: 5 and 10
    Batch,         \* rows of one insert: 100
    Tuning         \* cases the weights were chosen on: 200

VARIABLES
    todo,        \* the runs to come
    run,         \* the command line of the run under way, or None
    stage,       \* "index", "create", "insert", "graph", "merge" or "query"
    position,    \* documents inserted or merged by this run
    collection,  \* the documents in Milvus, None without a collection
    graph,       \* the documents in Neo4j
    queries,     \* the cases of the run
    rows,        \* their rankings and metrics
    published,   \* metrics.json of the last run that ended
    partial      \* history: the collection is of a build that broke off

ranking == <<todo, run, stage, position, collection, graph, queries, rows, published, partial>>

-----------------------------------------------------------------------------
(* Queries.                                                                *)

Doc == DOMAIN Documents
FirstFew(seq, n) == SubSeq(seq, 1, IF n < Len(seq) THEN n ELSE Len(seq))

\* Questions with evidence in the corpus, shuffled, up to the limit.
BuildQueryCases(limit) ==
    LET gold(q) == q.evidence \cap Doc
        fit == {i \in DOMAIN Questions : Questions[i].type # "null_query" /\ gold(Questions[i]) # {}}
    IN {FirstFew([i \in DOMAIN s |-> [type |-> Questions[s[i]].type, mentions |-> Questions[s[i]].mentions,
                                      gold_titles |-> gold(Questions[s[i]])]], limit) :
          s \in SetToSeqs(fit)}

-----------------------------------------------------------------------------
(* Rankings.                                                               *)

Ranked(order, docs, k) == FirstFew(SelectSeq(order, LAMBDA d : d \in docs), k)

\* The documents of several rankings, each once.
Candidates(rankings) == UNION {ToSet(r) : r \in ToSet(rankings)}

\* graph_expand: the seeds, what shares an entity with one of them, and what
\* has the source or category of one of the first eight.
Expanded(seeds) ==
    LET near == {d \in Doc : \E s \in ToSet(FirstFew(seeds, 8)) :
                   Documents[d].source = Documents[s].source \/ Documents[d].category = Documents[s].category}
        linked == {d \in graph : \E s \in ToSet(seeds) \cap graph : {<<s, d>>, <<d, s>>} \cap Neighbours # {}}
    IN ToSet(seeds) \cup linked \cup near

\* rrf_fuse, with weights in hundredths.
RrfFuse(rankings, weights, k) ==
    LET listed == FlattenSeq(rankings)
        docs   == SelectSeq([i \in DOMAIN listed |-> i],
                            LAMBDA i : \A j \in 1..i - 1 : listed[j] # listed[i])
        share(i, d) == IF d \in ToSet(rankings[i])
                       THEN <<weights[i], 60 + (CHOOSE r \in DOMAIN rankings[i] : rankings[i][r] = d)>>
                       ELSE <<0, 1>>
        score(d) == FoldLeft(LAMBDA sum, i : Plus(sum, share(i, d)), <<0, 1>>, [i \in DOMAIN rankings |-> i])
        higher(i, j) == LET x == score(listed[i])
                            y == score(listed[j])
                        IN x[1] * y[2] > y[1] * x[2] \/ (x[1] * y[2] = y[1] * x[2] /\ i < j)
        sorted == SortSeq(docs, higher)
    IN FirstFew([i \in DOMAIN sorted |-> listed[sorted[i]]], k)

\* The first of the vector ranking, then documents of the graph's, then the
\* fused rest.
VectorPreservingHybrid(vector, expanded, k) ==
    LET preserve   == IF k > 10 THEN 8 ELSE IF k > 3 THEN k - 2 ELSE 1
        supplement == IF k > 10 THEN 2 ELSE IF k - preserve > 1 THEN k - preserve ELSE 1
        kept  == FirstFew(vector, preserve)
        extra == FirstFew(SelectSeq(expanded, LAMBDA d : d \notin ToSet(kept)), supplement)
        rest  == SelectSeq(RrfFuse(<<vector, expanded>>, <<100, 35>>, 2 * k),
                           LAMBDA d : d \notin ToSet(kept \o extra))
    IN FirstFew(kept \o extra \o rest, k)

\* apply_source_coverage and source_coverage_rerank: for a source the query
\* names and no selected document has, the best document of it takes the last
\* place; the selection is sorted again and filled up.
SourceCoverage(base, mentions, k, insertions) ==
    LET has(sel, s) == \E d \in ToSet(sel) : Documents[d].source = s
        insert(st, s) ==
            LET of == SelectSeq(base, LAMBDA d : Documents[d].source = s)
                changed == SubSeq(st.selected, 1, Len(st.selected) - 1) \o FirstFew(of, 1)
                sorted  == SelectSeq(base, LAMBDA d : d \in ToSet(changed))
                count   == st.count + Len(FirstFew(of, 1))
            IN IF st.done \/ has(st.selected, s) THEN st
               ELSE [selected |-> IF of = <<>> THEN st.selected ELSE sorted,
                     count |-> count, done |-> count >= insertions]
        end == FoldLeft(insert, [selected |-> FirstFew(base, k), count |-> 0, done |-> FALSE], mentions)
        fill == SelectSeq(base, LAMBDA d : d \notin ToSet(end.selected))
    IN IF mentions = <<>> THEN FirstFew(base, k) ELSE FirstFew(end.selected \o fill, k)

-----------------------------------------------------------------------------
(* Metrics.                                                                *)

\* Fractions.
EvaluateRanking(gold, docs, k) ==
    LET top  == FirstFew(docs, k)
        hits == {r \in DOMAIN top : top[r] \in gold}
        best == CHOOSE r \in hits : \A q \in hits : r <= q
    IN [recall |-> <<Cardinality(hits), Cardinality(gold)>>,
        hit |-> <<IF hits = {} THEN 0 ELSE 1, 1>>,
        mrr |-> IF hits = {} THEN <<0, 1>> ELSE <<1, best>>]

EvaluateRow(case, rankings) ==
    [type |-> case.type, rankings |-> rankings,
     metrics |-> [mode \in DOMAIN rankings |->
        LET near == EvaluateRanking(case.gold_titles, rankings[mode], Near)
            far  == EvaluateRanking(case.gold_titles, rankings[mode], Far)
        IN [recall_at_5 |-> near.recall, recall_at_10 |-> far.recall, hit_at_10 |-> far.hit, mrr_at_10 |-> far.mrr]]]

\* The means of every mode and the lifts over the vector ranking.
Summarize(some) ==
    LET mean(mode, m) ==
            LET sum == FoldLeft(LAMBDA s, r : Plus(s, r.metrics[mode][m]), <<0, 1>>, some)
            IN Rate(sum[1], sum[2] * Len(some))
        modes == IF some = <<>> THEN {} ELSE DOMAIN some[1].metrics
        means == [mode \in modes |->
                    [m \in {"recall_at_5", "recall_at_10", "hit_at_10", "mrr_at_10"} |-> mean(mode, m)]]
    IN [means |-> means,
        lifts |-> [mode \in modes \ {"vector_only"} |->
                     RelativeLift(means[mode]["recall_at_10"], means["vector_only"]["recall_at_10"])]]

ByType(some) ==
    [t \in {r.type : r \in ToSet(some)} |-> Summarize(SelectSeq(some, LAMBDA r : r.type = t))]

\* The rows the weights were chosen on, and those after them.
AggregateMetrics(all) ==
    LET dev == FirstFew(all, Tuning)
        holdout == SubSeq(all, Len(dev) + 1, Len(all))
    IN [all |-> Summarize(all), dev |-> Summarize(dev), holdout |-> Summarize(holdout),
        by_type |-> ByType(all), holdout_by_type |-> ByType(holdout)]

\* The rows the ranker was trained on, those for tuning and those after them.
LambdaMartMetrics(all) ==
    LET train == FirstFew(all, run.train)
        dev == SubSeq(all, Len(train) + 1, run.train + run.dev)
        holdout == SubSeq(all, run.train + run.dev + 1, Len(all))
    IN [train |-> Summarize(train), dev |-> Summarize(dev), holdout |-> Summarize(holdout),
        holdout_by_type |-> ByType(holdout)]

\* Its summaries divide by the number of rows and by the recall of the vector
\* ranking, and nothing is written when one of these is zero.
Divides(summary) == summary.lifts # <<>> /\ \A mode \in DOMAIN summary.lifts : summary.lifts[mode] # None
LambdaMartFails(m) ==
    \/ ~Divides(m.train) \/ ~Divides(m.holdout) \/ (run.dev > 0 /\ ~Divides(m.dev))
    \/ \E t \in DOMAIN m.holdout_by_type : ~Divides(m.holdout_by_type[t])

-----------------------------------------------------------------------------
(* The runs.                                                               *)

RankingInit ==
    /\ todo \in RankingPlans
    /\ run = None
    /\ stage = "index"
    /\ position = 0
    /\ collection = None
    /\ graph = {}
    /\ queries = <<>>
    /\ rows = <<>>
    /\ published = None
    /\ partial = FALSE

\* The ranker needs cases left to hold out.
StartRanking ==
    /\ run = None /\ todo # <<>>
    /\ todo' = Tail(todo)
    /\ \E cases \in BuildQueryCases(Head(todo).limit) :
         IF Head(todo).program = "lambdamart" /\ Head(todo).train + Head(todo).dev >= Len(cases)
         THEN UNCHANGED <<run, queries>>
         ELSE run' = Head(todo) /\ queries' = cases
    /\ stage' = "index"
    /\ UNCHANGED <<position, collection, graph, rows, published, partial>>

At(s) == run # None /\ stage = s
AfterIndex == IF run.program = "retrieval" THEN "graph" ELSE "query"

DropCollection ==
    /\ At("index") /\ run.rebuild_index /\ collection # None
    /\ collection' = None
    /\ stage' = "create"
    /\ UNCHANGED <<todo, run, position, graph, queries, rows, published, partial>>

\* A collection that is there is taken as it is.
TakeCollection ==
    /\ At("index") /\ ~run.rebuild_index /\ collection # None
    /\ stage' = AfterIndex
    /\ UNCHANGED <<todo, run, position, collection, graph, queries, rows, published, partial>>

CreateCollection ==
    /\ At("index") \/ At("create")
    /\ collection = None
    /\ collection' = {}
    /\ stage' = "insert"
    /\ partial' = FALSE
    /\ position' = 0
    /\ UNCHANGED <<todo, run, graph, queries, rows, published>>

InsertBatch ==
    /\ At("insert") /\ position < Len(Documents)
    /\ LET next == IF position + Batch < Len(Documents) THEN position + Batch ELSE Len(Documents)
       IN collection' = collection \cup (position + 1)..next /\ position' = next
    /\ UNCHANGED <<todo, run, stage, graph, queries, rows, published, partial>>

EndInsert ==
    /\ At("insert") /\ position = Len(Documents)
    /\ stage' = AfterIndex
    /\ UNCHANGED <<todo, run, position, collection, graph, queries, rows, published, partial>>

\* Mutant of GraphIsThere: a graph of any documents is taken as it is.
GraphIsBegun(docs) == docs # {}

GraphIsThere(docs) == Cardinality(docs) = Len(Documents)

\* prepare_neo4j up to the first document it merges.
PrepareGraph ==
    /\ At("graph")
    /\ graph' = IF run.rebuild_graph THEN {} ELSE graph
    /\ stage' = IF GraphIsThere(graph') THEN "query" ELSE "merge"
    /\ position' = 0
    /\ UNCHANGED <<todo, run, collection, queries, rows, published, partial>>

MergeDocument ==
    /\ At("merge")
    /\ graph' = graph \cup {position + 1}
    /\ position' = position + 1
    /\ stage' = IF position' = Len(Documents) THEN "query" ELSE "merge"
    /\ UNCHANGED <<todo, run, collection, queries, rows, published, partial>>

NextQuery == At("query") /\ Len(rows) < Len(queries)
Query == queries[Len(rows) + 1]
AddRow(rankings) ==
    /\ rows' = Append(rows, EvaluateRow(Query, rankings))
    /\ UNCHANGED <<todo, run, stage, position, collection, graph, queries, published, partial>>

\* Vector search in the collection and BM25 over the corpus.
RetrieveAll ==
    /\ NextQuery /\ run.program = "retrieval"
    /\ \E o \in [{"vector", "bm25", "graph", "metadata", "adaptive"} -> Orders], matching \in Matching :
         LET vector   == Ranked(o.vector, collection, run.top_k)
             bm25     == Ranked(o.bm25, matching, run.top_k)
             expanded == Ranked(o.graph, Expanded(FirstFew(bm25, 12)), run.top_k)
             reranked(order) == Ranked(order, Candidates(<<vector, bm25>>), run.top_k)
         IN AddRow([vector_only |-> vector, bm25_only |-> bm25, graph_only |-> expanded,
                    hybrid_rrf |-> VectorPreservingHybrid(vector, expanded, run.top_k),
                    metadata_graph_rerank |-> reranked(o.metadata),
                    adaptive_graph_rerank |-> reranked(o.adaptive)])

\* The documents of the best chunks, by their first chunk: as many as those
\* chunks are of.
RerankChunks ==
    /\ NextQuery /\ run.program = "chunk"
    /\ \E o \in [{"vector", "bm25", "chunk", "rerank"} -> Orders], matching \in Matching, n \in Doc :
         LET vector   == Ranked(o.vector, collection, run.top_k)
             bm25     == Ranked(o.bm25, matching, run.top_k)
             chunks   == FirstFew(o.chunk, n)
             reranked == Ranked(o.rerank, Candidates(<<vector, bm25, FirstFew(chunks, run.top_k)>>), run.top_k)
         IN AddRow([vector_only |-> vector, bm25_only |-> bm25, chunk_vector |-> FirstFew(chunks, run.top_k),
                    chunk_metadata_rerank |-> reranked,
                    source_coverage_rerank |-> SourceCoverage(reranked, Query.mentions, Far, 1)])

\* The features of the candidates, and the trained ranker's order of them.
RankLearned ==
    /\ NextQuery /\ run.program = "lambdamart"
    /\ \E o \in [{"vector", "bm25", "chunk", "learned"} -> Orders], matching \in Matching, n \in Doc :
         LET vector  == Ranked(o.vector, collection, run.candidates)
             bm25    == Ranked(o.bm25, matching, run.candidates)
             chunks  == FirstFew(o.chunk, n)
             scored  == Ranked(o.learned, Candidates(<<vector, bm25, FirstFew(chunks, run.candidates)>>), Len(Documents))
             top(s)  == FirstFew(s, run.top_k)
         IN AddRow([vector_only |-> top(vector), bm25_only |-> top(bm25), chunk_vector |-> top(chunks),
                    lambdamart |-> top(scored),
                    lambdamart_source_coverage |->
                        SourceCoverage(scored, Query.mentions, run.top_k, run.insertions)])

EndRun ==
    /\ run' = None
    /\ rows' = <<>>
    /\ queries' = <<>>
    /\ position' = 0
    /\ stage' = "index"

Publish ==
    /\ At("query") /\ Len(rows) = Len(queries)
    /\ IF run.program = "lambdamart"
       THEN published' = IF LambdaMartFails(LambdaMartMetrics(rows)) THEN published ELSE LambdaMartMetrics(rows)
       ELSE published' = AggregateMetrics(rows)
    /\ EndRun
    /\ UNCHANGED <<todo, collection, graph, partial>>

\* Milvus, Neo4j or the process stops.
BreakOffRanking ==
    /\ run # None
    /\ partial' = (partial \/ (stage = "insert" /\ position < Len(Documents)))
    /\ EndRun
    /\ UNCHANGED <<todo, collection, graph, published>>

RankingNext ==
    \/ StartRanking \/ DropCollection \/ TakeCollection \/ CreateCollection \/ InsertBatch \/ EndInsert
    \/ PrepareGraph \/ MergeDocument
    \/ RetrieveAll \/ RerankChunks \/ RankLearned \/ Publish \/ BreakOffRanking

-----------------------------------------------------------------------------
(* Properties.                                                             *)

\* What a query is judged by: the graph is of the whole corpus, whatever
\* earlier runs were broken off while they built it, and so is the collection,
\* unless the run that built it was broken off (a collection is never
\* completed); no ranking names a document twice; the hybrid keeps the head of
\* the vector ranking, in order; and covering the sources a query names
\* changes at most the last place of a reranking.
ComparisonIsSound ==
    [][\A i \in DOMAIN rows' \ DOMAIN rows :
         LET r == rows'[i].rankings
             head(s, n) == SubSeq(s, 1, IF n < Len(s) THEN n ELSE Len(s))
             lastOnly(base, covered, k) ==
                 Len(covered) = Len(head(base, k)) /\ head(covered, Len(covered) - 1) = head(base, Len(covered) - 1)
         IN /\ run.program = "retrieval" => graph = Doc
            /\ ~partial => collection = Doc
            /\ \A mode \in DOMAIN r : IsInjective(r[mode])
            /\ "hybrid_rrf" \in DOMAIN r =>
                 LET strong == head(r.vector_only, run.top_k - 2)
                 IN head(r.hybrid_rrf, Len(strong)) = strong
            /\ "source_coverage_rerank" \in DOMAIN r =>
                 lastOnly(r.chunk_metadata_rerank, r.source_coverage_rerank, Far)
            /\ "lambdamart" \in DOMAIN r =>
                 lastOnly(r.lambdamart, r.lambdamart_source_coverage, run.top_k)]_ranking
=============================================================================
